---- MODULE Spec2Model ----
(***************************************************************************)
(* Release-automation scripts of viaduct:                                  *)
(*   .github/scripts/demoapps_to_external_push.py  (DemoAppPublisher)      *)
(*   .github/scripts/publish_all_demoapps.py       (bulk driver)           *)
(*   .github/scripts/generate_changelog.py         (changelog pipeline)    *)
(*   docs/plugins/code_snippets.py                 (snippet macros)        *)
(* Text is modelled as sequences of tokens: a file is a sequence of        *)
(* tokens with explicit "\n" tokens, a branch name is the token            *)
(* "release/v" followed by one token per character, a commit subject is a  *)
(* sequence of word and punctuation tokens.                                *)
(***************************************************************************)
EXTENDS Integers, Sequences, FiniteSets, TLC

VARIABLES
    \* ---- environment of a publisher run
    branch,          \* what `git rev-parse --abbrev-ref HEAD` prints
    environ,         \* os.environ restricted to the variables the script reads
    netrc,           \* ~/.netrc: [exists, data]
    gradleHead,      \* gradle.properties as checked in (what git checkout restores)
    gradleWork,      \* gradle.properties in the working tree: [exists, data]
    \* ---- DemoAppPublisher
    pc,              \* position of the publisher process
    is_ci, github_token, destination_repo, netrc_modified, source_repo,
    registered,      \* atexit.register(self.cleanup) has run
    result,          \* what main() returned, 1 when an exception left it
    exitStatus,      \* status of the terminated process
    \* ---- history of the publisher run
    netrc0, gradle0, \* the two files when the run started
    stages,          \* stages of publish() started so far, in order
    failedStage,     \* the stage that ended the run, "none" while none has
    buildRuns, buildRc, copybaraRuns, copybaraRc, copybaraUrl,
    printed,         \* the lines the run has printed so far
    printedOther,    \* the lines of the run that differs only in the token value
    \* ---- bulk driver
    bpc,             \* position of the driver
    bIdx,            \* index into demo_apps of the next app
    failed_apps,
    bGit,            \* how the driver's git rev-parse ended
    bRuns,           \* publisher processes run so far: app, repo, status
    bResult,         \* what main() returned
    \* ---- changelog generator
    lpc,             \* position of generate_changelog
    commits,         \* the CommitInfo records git log gives for tag1..tag2
    lIdx,            \* index of the next commit the loop parses
    entries,         \* ChangelogEntry records collected so far
    output,          \* the returned document, as lines
    \* ---- snippet macros
    dpc,             \* position of the macro call
    tree,            \* what the path names under the two candidate roots
    macro,           \* the call: which macro and its arguments
    rendered,        \* how the call ended: the exception or the code block
    \* ---- publisher runs that share ~/.netrc
    launcher,        \* how the runs are started: on their own or by the bulk driver
    runs             \* per run: position, token, netrc_modified, cleanup's content

pubVars == <<branch, environ, netrc, gradleHead, gradleWork, pc, is_ci, github_token,
             destination_repo, netrc_modified, source_repo, registered, result,
             exitStatus, netrc0, gradle0, stages, failedStage, buildRuns,
             buildRc, copybaraRuns, copybaraRc, copybaraUrl, printed, printedOther>>
\* the publisher variables other than ~/.netrc
pubRest == <<branch, environ, gradleHead, gradleWork, pc, is_ci, github_token,
             destination_repo, netrc_modified, source_repo, registered, result,
             exitStatus, netrc0, gradle0, stages, failedStage, buildRuns,
             buildRc, copybaraRuns, copybaraRc, copybaraUrl, printed, printedOther>>
bulkVars == <<bpc, bIdx, failed_apps, bGit, bRuns, bResult>>
logVars == <<lpc, commits, lIdx, entries, output>>
docVars == <<dpc, tree, macro, rendered>>
raceVars == <<launcher, runs>>
vars == <<pubVars, bulkVars, logVars, docVars, raceVars>>

----------------------------------------------------------------------------
(* Bounds of the model *)

\* longest gradle.properties, in lines
MaxPropLines == 2
\* most commits in a tag range
MaxCommits == 2
\* most parts a generated commit subject is put together from
MaxParts == 4
\* longest author email, in tokens
MaxEmailLen == 3
\* most co-author trailers on a commit
MaxCoauthors == 2
\* longest generated source file, in lines
MaxLines == 3
\* most publisher runs that share ~/.netrc
MaxRuns == 2

----------------------------------------------------------------------------
(* Generic helpers on token sequences *)

None == "None"

SeqsUpTo(S, n) == UNION {[1..k -> S] : k \in 0..n}

StartsWith(s, p) == Len(s) >= Len(p) /\ SubSeq(s, 1, Len(p)) = p

Drop(s, n) == SubSeq(s, n + 1, Len(s))

File(data) == [exists |-> TRUE, data |-> data]
NoFile == [exists |-> FALSE, data |-> <<>>]

----------------------------------------------------------------------------
(* Branch names and versions *)

RELEASE_PREFIX == "release/v"
Digits == {"0", "1", "2"}

V100 == <<"1", ".", "0", ".", "0">>
V200 == <<"2", ".", "0", ".", "0">>
Vx == <<"x">>

Branches ==
    { <<"main">>,
      <<RELEASE_PREFIX>> \o V100,
      <<RELEASE_PREFIX>> \o V200,
      <<RELEASE_PREFIX>> \o Vx,
      <<RELEASE_PREFIX>>,
      <<RELEASE_PREFIX, "1", ".", "0">> }

\* branch_name.startswith("release/v")
IsReleasePrefixed(b) == StartsWith(b, <<RELEASE_PREFIX>>)

\* branch_name[len("release/v"):]
BranchVersion(b) == Drop(b, 1)

\* \d+ at position i of s: the positions one past each possible end of the run
RECURSIVE DigitRunEnd(_, _)
DigitRunEnd(s, i) ==
    IF i <= Len(s) /\ s[i] \in Digits THEN DigitRunEnd(s, i + 1) ELSE i

\* re.match(r"^release/v\d+\.\d+\.\d+$", branch_name)
MatchesReleasePattern(b) ==
    /\ IsReleasePrefixed(b)
    /\ LET a == DigitRunEnd(b, 2)
           c == DigitRunEnd(b, a + 1)
           e == DigitRunEnd(b, c + 1)
       IN /\ a > 2
          /\ a <= Len(b) /\ b[a] = "."
          /\ c > a + 1
          /\ c <= Len(b) /\ b[c] = "."
          /\ e > c + 1
          /\ e = Len(b) + 1

----------------------------------------------------------------------------
(* gradle.properties: a sequence of lines, each a key and a value *)

VerLine(v) == [key |-> "viaductVersion", val |-> v]
OtherLine == [key |-> "org.gradle.jvmargs", val |-> <<"x">>]

PropLines == {VerLine(V100), VerLine(Vx), VerLine(<<>>), OtherLine}
PropFiles == SeqsUpTo(PropLines, MaxPropLines)

\* re.search(r"^viaductVersion=(.+)$", content, re.MULTILINE): the index of the
\* first line that is viaductVersion= followed by at least one character, 0 if none
RECURSIVE SearchVersionFrom(_, _)
SearchVersionFrom(lines, i) ==
    IF i > Len(lines) THEN 0
    ELSE IF lines[i].key = "viaductVersion" /\ Len(lines[i].val) >= 1 THEN i
    ELSE SearchVersionFrom(lines, i + 1)

SearchVersion(lines) == SearchVersionFrom(lines, 1)

\* re.sub(r"^viaductVersion=.*", f"viaductVersion={v}", content, re.MULTILINE):
\* every line that starts with viaductVersion= is rewritten, an empty value included
SubVersion(lines, v) ==
    [i \in 1..Len(lines) |->
        IF lines[i].key = "viaductVersion" THEN VerLine(v) ELSE lines[i]]

----------------------------------------------------------------------------
(* ~/.netrc: a sequence of tokens *)

NL == "\n"
BEGIN_MARK == "# BEGIN TEMP GIT ACCESS"
END_MARK == "# END TEMP GIT ACCESS"

\* netrc_entry of setup_netrc
NetrcEntry(token) ==
    << BEGIN_MARK, NL,
       "machine github.com", NL,
       "login x-access-token", NL,
       "password ", token, NL,
       END_MARK, NL >>

\* the first j >= i with END_MARK followed by a newline at j, 0 if none
RECURSIVE FindEnd(_, _)
FindEnd(s, j) ==
    IF j + 1 > Len(s) THEN 0
    ELSE IF s[j] = END_MARK /\ s[j + 1] = NL THEN j
    ELSE FindEnd(s, j + 1)

\* re.sub(r"# BEGIN TEMP GIT ACCESS\n.*?# END TEMP GIT ACCESS\n", "", content, DOTALL)
RECURSIVE RemoveSectionsFrom(_, _)
RemoveSectionsFrom(s, i) ==
    IF i > Len(s) THEN <<>>
    ELSE IF i + 1 <= Len(s) /\ s[i] = BEGIN_MARK /\ s[i + 1] = NL
                             /\ FindEnd(s, i + 2) # 0
         THEN RemoveSectionsFrom(s, FindEnd(s, i + 2) + 2)
         ELSE <<s[i]>> \o RemoveSectionsFrom(s, i + 1)

RemoveSections(s) == RemoveSectionsFrom(s, 1)

\* the content holds a '# BEGIN TEMP GIT ACCESS' ... '# END TEMP GIT ACCESS' section
HasSection(s) ==
    \E i, j \in 1..Len(s) :
        /\ i + 2 <= j /\ j + 1 <= Len(s)
        /\ s[i] = BEGIN_MARK /\ s[i + 1] = NL
        /\ s[j] = END_MARK /\ s[j + 1] = NL

NetrcSamples ==
    { NoFile,
      File(<<>>),
      File(<<"machine example.org login u password p", NL>>),
      File(<<"machine example.org login u password p">>),
      File(<<BEGIN_MARK, NL, "machine example.org", NL, END_MARK, NL>>) }

----------------------------------------------------------------------------
(* Environment variables *)

Unset == "<unset>"
TOKEN_VAR == "VIADUCT_GRAPHQL_GITHUB_ACCESS_TOKEN"
ci_indicators ==
    <<"CI", "GITHUB_ACTIONS", "JENKINS_HOME", "CIRCLECI", "TRAVIS", "GITLAB_CI", "BUILDKITE">>
EnvNames == {ci_indicators[i] : i \in 1..Len(ci_indicators)} \cup {TOKEN_VAR}

NoEnv == [n \in EnvNames |-> Unset]
Environs ==
    { [e EXCEPT ![TOKEN_VAR] = t] :
        e \in { NoEnv,
                [NoEnv EXCEPT !["CI"] = "true"],
                [NoEnv EXCEPT !["CI"] = "", !["BUILDKITE"] = "true"],
                [NoEnv EXCEPT !["CI"] = ""] },
        t \in {Unset, "", "s3cr3t"} }

\* os.environ.get(name) is truthy: the variable is set to a non-empty value
Truthy(value) == value # Unset /\ value # ""

\* variant: only the generic indicator is looked at
detect_ci_environment_GenericOnly(env) == Truthy(env["CI"])

detect_ci_environment(env) ==
    \E i \in 1..Len(ci_indicators) : Truthy(env[ci_indicators[i]])

----------------------------------------------------------------------------
(* DemoAppPublisher *)

GITHUB_REPO == "viaduct-dev/starwars"

\* NO_OP_EXIT_CODE of run_copybara
NO_OP_EXIT_CODE == 4

\* return codes of the migration tool: success, no-op, failures, killed by a signal
CopybaraCodes == {0, NO_OP_EXIT_CODE, 1, 255, -9}

StageVerifyBranch == "verify-on-release-branch"
StageVerifyBuild == "verify-independent-build"
StageVerifyAuth == "verify-authentication"
StageCredentials == "configure-credentials"
StageSource == "resolve-source-location"
StageRewrite == "rewrite-version-file"
StageMigrate == "invoke-migration-tool"

\* destination_repo of __init__
HttpsDestination(repo) == <<"https://", "github.com/", repo, ".git">>
SshDestination(repo) == <<"git@github.com:", repo, ".git">>

InitDestination(ci, repo) ==
    IF ci THEN HttpsDestination(repo) ELSE SshDestination(repo)

\* self.github_token = os.environ.get(TOKEN_VAR)
EnvGet(env, name) == IF env[name] = Unset THEN None ELSE env[name]

\* a token that `if self.github_token` accepts
HasToken(token) == token # None /\ token # ""

\* url.replace("https://", f"https://x-access-token:{token}@")
RECURSIVE ReplaceHttps(_, _)
ReplaceHttps(url, token) ==
    IF url = <<>> THEN <<>>
    ELSE (IF Head(url) = "https://"
          THEN <<"https://", "x-access-token:", token, "@">>
          ELSE <<Head(url)>>) \o ReplaceHttps(Tail(url), token)

\* final_repo of run_copybara
FinalRepo(ci, token, dest) ==
    IF ci /\ HasToken(token) THEN ReplaceHttps(dest, token) ELSE dest

\* variant: every failure of the tool is reported as 1
CopybaraResult_FlatFailure(rc) == IF rc = 0 \/ rc = NO_OP_EXIT_CODE THEN 0 ELSE 1

\* variant: the no-op code is not treated as success
CopybaraResult_NoOpFails(rc) == IF rc = 0 THEN 0 ELSE rc

\* what run_copybara returns for the tool's return code
CopybaraResult(rc) == IF rc = 0 \/ rc = NO_OP_EXIT_CODE THEN 0 ELSE rc

\* variant: the version found is not compared with the branch version
VersionMatchesBranch_NoCompare(b, props) ==
    /\ IsReleasePrefixed(b)
    /\ props.exists
    /\ SearchVersion(props.data) # 0

\* verify_release_version_matches_branch, given the branch git printed
VersionMatchesBranch(b, props) ==
    /\ IsReleasePrefixed(b)
    /\ props.exists
    /\ SearchVersion(props.data) # 0
    /\ props.data[SearchVersion(props.data)].val = BranchVersion(b)

----------------------------------------------------------------------------
(* DemoAppPublisher: what the run prints, one token sequence per line *)

DEMOAPP == "starwars"
PROPS_PATH == "demoapps/starwars/gradle.properties"

\* self.auth_method of __init__
AuthMethod(ci) == IF ci THEN "HTTPS with token (CI)" ELSE "SSH (local)"

\* the interpreter's report of an exception that left main()
Traceback(stage) == <<(<<"Traceback (most recent call last):", stage>>)>>

\* main(): the usage message
PrintUsage ==
    << <<"Error: Missing required arguments">>,
       <<"Usage: demoapp_to_external_push.py <demoapp-name> <github-repo>">>,
       <<"Example: demoapp_to_external_push.py starwars viaduct-dev/starwars">> >>

\* __init__: the warning about a missing token and the 'Using ... for ...' line
PrintInit(ci, token, dest) ==
    (IF ci /\ ~HasToken(token)
     THEN <<(<<"Warning: Running in CI but ", TOKEN_VAR, " is not set">>)>>
     ELSE <<>>)
    \o <<(<<"Using ", AuthMethod(ci), " for ">> \o dest)>>

\* verify_release_version_matches_branch: one message per way it ends
PrintVerifyBranch(b, props) ==
    IF ~IsReleasePrefixed(b)
    THEN << <<"Not on a release branch. Current branch: ">> \o b,
            <<"   Expected branch format: release/v[major].[minor].[patch]">> >>
    ELSE IF ~props.exists
    THEN <<(<<"gradle.properties not found at ", PROPS_PATH>>)>>
    ELSE IF SearchVersion(props.data) = 0
    THEN <<(<<"viaductVersion not found in ", PROPS_PATH>>)>>
    ELSE IF props.data[SearchVersion(props.data)].val # BranchVersion(b)
    THEN << <<"Version mismatch!">>,
            <<"   Branch version: ">> \o BranchVersion(b),
            <<"   Demo app version: ">> \o props.data[SearchVersion(props.data)].val >>
    ELSE <<(<<"Version matches branch: ">> \o BranchVersion(b))>>

\* verify_individual_build: the captured output of the build is printed when it fails
PrintVerifyBuild(returncode) ==
    <<(<<"Verifying ", DEMOAPP, " builds independently...">>)>>
    \o (IF returncode # 0
        THEN << <<DEMOAPP, " failed to build independently">>,
                <<"stdout: ", "<build stdout>">>,
                <<"stderr: ", "<build stderr>">> >>
        ELSE <<(<<DEMOAPP, " builds successfully">>)>>)

\* publish(): the message of the authentication check
PrintVerifyAuth(ci, token) ==
    IF ci /\ ~HasToken(token)
    THEN <<(<<"Error: ", TOKEN_VAR, " environment variable is required in CI">>)>>
    ELSE <<>>

\* determine_source_repo
PrintSource(src) == <<(<<"Using repository location: ", src>>)>>

\* publish(): the branch read again, then the first line of update_gradle_properties
PrintRewrite(b) ==
    IF IsReleasePrefixed(b)
    THEN << <<"Using version from branch: ">> \o BranchVersion(b),
            <<"Updating ", DEMOAPP, " gradle.properties to use published version: ">>
                \o BranchVersion(b) >>
    ELSE <<(<<"Error: Not on a release branch. Current branch: ">> \o b)>>

\* variant: the Destination: line shows the URL handed to the tool
PrintedDestination_FinalRepo(dest, final_repo) == final_repo

\* run_copybara: the URL the Destination: line shows, with final_repo in scope
PrintedDestination(dest, final_repo) == dest

\* run_copybara: the five lines before the tool is started and the line after
PrintCopybara(ci, src, dest, final_repo, rc) ==
    << <<"Running copybara for ", DEMOAPP, " (workflow: ", "airbnb-viaduct-to-", DEMOAPP, ")">>,
       <<"Environment: ", IF ci THEN "CI" ELSE "Local">>,
       <<"Source: ", src>>,
       <<"Destination: ">> \o PrintedDestination(dest, final_repo),
       <<"Config: ", ".github/copybara/copy.bara.sky">> >>
    \o (IF rc = 0 \/ rc = NO_OP_EXIT_CODE
        THEN <<(<<"Successfully synced ", DEMOAPP, " to external repository">>)>>
        ELSE <<(<<"Failed to sync ", DEMOAPP, " (exit code: ", ToString(rc), ")">>)>>)

\* the token of the run that differs from this one only in the token value
OtherToken(token) ==
    IF ~HasToken(token) THEN token
    ELSE IF token = "s3cr3t" THEN "t0k3n" ELSE "s3cr3t"

\* the lines are printed by this run, `other` by the run with the other token
Emit(lines, other) ==
    /\ printed' = printed \o lines
    /\ printedOther' = printedOther \o other

Say(lines) == Emit(lines, lines)

----------------------------------------------------------------------------
(* DemoAppPublisher: the steps of a run *)

\* cleanup: the .netrc part
CleanupNetrc(modified, file) ==
    IF modified /\ file.exists THEN File(RemoveSections(file.data)) ELSE file

\* cleanup: git checkout -- gradle.properties
CleanupGradle(work, head) == IF work.exists THEN head ELSE work

\* sys.exit(code): the status the parent sees
ProcessStatus(code) == code % 256

\* local states of gradle.properties for a checked-in content
WorkingCopies(head) ==
    { head, NoFile,
      File(Append(head.data, OtherLine)),
      File(<<VerLine(V100)>> \o head.data) }

PubFrame == UNCHANGED <<branch, environ, gradleHead, netrc0, gradle0>>

\* a stage ended the run with return value `code`
ReturnFrom(stage, code) ==
    /\ result' = code
    /\ failedStage' = stage
    /\ pc' = "returned"

\* a stage raised: the interpreter prints the traceback and exits with 1
RaiseFrom(stage) ==
    /\ result' = 1
    /\ failedStage' = stage
    /\ pc' = "raised"

\* main() up to the call of publish(): argument check and __init__
Main ==
    /\ pc = "start"
    /\ \E argc \in {1, 3} :
        IF argc < 3
        THEN /\ result' = 1
             /\ pc' = "returned"
             /\ Say(PrintUsage)
             /\ UNCHANGED <<is_ci, github_token, destination_repo, netrc_modified,
                            source_repo, registered>>
        ELSE /\ is_ci' = detect_ci_environment(environ)
             /\ github_token' = EnvGet(environ, TOKEN_VAR)
             /\ destination_repo' = InitDestination(detect_ci_environment(environ), GITHUB_REPO)
             /\ registered' = TRUE
             /\ netrc_modified' = FALSE
             /\ source_repo' = None
             /\ pc' = "verify"
             /\ Emit(PrintInit(detect_ci_environment(environ), EnvGet(environ, TOKEN_VAR),
                                InitDestination(detect_ci_environment(environ), GITHUB_REPO)),
                      PrintInit(detect_ci_environment(environ),
                                OtherToken(EnvGet(environ, TOKEN_VAR)),
                                InitDestination(detect_ci_environment(environ), GITHUB_REPO)))
             /\ UNCHANGED result
    /\ PubFrame
    /\ UNCHANGED <<netrc, gradleWork, exitStatus, stages, failedStage, buildRuns,
                   buildRc, copybaraRuns, copybaraRc, copybaraUrl>>

\* publish(): verify_release_version_matches_branch
VerifyBranch ==
    /\ pc = "verify"
    /\ stages' = Append(stages, StageVerifyBranch)
    /\ \E git \in {"ok", "fails"} :
        IF git = "fails"
        THEN RaiseFrom(StageVerifyBranch) /\ Say(Traceback(StageVerifyBranch))
        ELSE /\ Say(PrintVerifyBranch(branch, gradleWork))
             /\ IF VersionMatchesBranch(branch, gradleWork)
                THEN pc' = "build" /\ UNCHANGED <<result, failedStage>>
                ELSE ReturnFrom(StageVerifyBranch, 1)
    /\ PubFrame
    /\ UNCHANGED <<netrc, gradleWork, is_ci, github_token, destination_repo,
                   netrc_modified, source_repo, registered, exitStatus, buildRuns,
                   buildRc, copybaraRuns, copybaraRc, copybaraUrl>>

\* variant: publish() does not return when the build fails
VerifyBuild_NoReturn ==
    /\ pc = "build"
    /\ stages' = Append(stages, StageVerifyBuild)
    /\ buildRuns' = buildRuns + 1
    /\ \E returncode \in {0, 1} :
        /\ buildRc' = returncode
        /\ Say(PrintVerifyBuild(returncode))
        /\ pc' = "auth"
        /\ IF returncode # 0
           THEN result' = 1 /\ failedStage' = StageVerifyBuild
           ELSE UNCHANGED <<result, failedStage>>
    /\ PubFrame
    /\ UNCHANGED <<netrc, gradleWork, is_ci, github_token, destination_repo,
                   netrc_modified, source_repo, registered, exitStatus,
                   copybaraRuns, copybaraRc, copybaraUrl>>

\* publish(): verify_individual_build
VerifyBuild ==
    /\ pc = "build"
    /\ stages' = Append(stages, StageVerifyBuild)
    /\ buildRuns' = buildRuns + 1
    /\ \E returncode \in {0, 1} :
        /\ buildRc' = returncode
        /\ Say(PrintVerifyBuild(returncode))
        /\ IF returncode # 0
           THEN ReturnFrom(StageVerifyBuild, 1)
           ELSE pc' = "auth" /\ UNCHANGED <<result, failedStage>>
    /\ PubFrame
    /\ UNCHANGED <<netrc, gradleWork, is_ci, github_token, destination_repo,
                   netrc_modified, source_repo, registered, exitStatus,
                   copybaraRuns, copybaraRc, copybaraUrl>>

\* publish(): if self.is_ci and not self.github_token: return 1
VerifyAuth ==
    /\ pc = "auth"
    /\ stages' = Append(stages, StageVerifyAuth)
    /\ IF is_ci /\ ~HasToken(github_token)
       THEN ReturnFrom(StageVerifyAuth, 1)
       ELSE pc' = "setup" /\ UNCHANGED <<result, failedStage>>
    /\ Emit(PrintVerifyAuth(is_ci, github_token),
            PrintVerifyAuth(is_ci, OtherToken(github_token)))
    /\ PubFrame
    /\ UNCHANGED <<netrc, gradleWork, is_ci, github_token, destination_repo,
                   netrc_modified, source_repo, registered, exitStatus, buildRuns,
                   buildRc, copybaraRuns, copybaraRc, copybaraUrl>>

\* setup_netrc: open(.., "a"), write, chmod, netrc_modified = True; open and
\* chmod are the calls that can raise
SetupNetrc ==
    /\ pc = "setup"
    /\ stages' = Append(stages, StageCredentials)
    /\ IF ~is_ci \/ ~HasToken(github_token)
       THEN /\ pc' = "source"
            /\ Say(<<>>)
            /\ UNCHANGED <<netrc, netrc_modified, result, failedStage>>
       ELSE \E io \in {"ok", "open raises", "chmod raises"} :
            CASE io = "open raises" ->
                    /\ RaiseFrom(StageCredentials)
                    /\ Say(Traceback(StageCredentials))
                    /\ UNCHANGED <<netrc, netrc_modified>>
              [] io = "chmod raises" ->
                    /\ netrc' = File(netrc.data \o NetrcEntry(github_token))
                    /\ RaiseFrom(StageCredentials)
                    /\ Say(Traceback(StageCredentials))
                    /\ UNCHANGED netrc_modified
              [] OTHER ->
                    /\ netrc' = File(netrc.data \o NetrcEntry(github_token))
                    /\ netrc_modified' = TRUE
                    /\ pc' = "source"
                    /\ Say(<<>>)
                    /\ UNCHANGED <<result, failedStage>>
    /\ PubFrame
    /\ UNCHANGED <<gradleWork, is_ci, github_token, destination_repo, source_repo,
                   registered, exitStatus, buildRuns, buildRc, copybaraRuns, copybaraRc,
                   copybaraUrl>>

\* determine_source_repo: git rev-parse --show-toplevel, check=True
DetermineSource ==
    /\ pc = "source"
    /\ stages' = Append(stages, StageSource)
    /\ \E git \in {"ok", "fails"} :
        IF git = "fails"
        THEN RaiseFrom(StageSource) /\ Say(Traceback(StageSource)) /\ UNCHANGED source_repo
        ELSE /\ source_repo' = "file:///repo"
             /\ Say(PrintSource("file:///repo"))
             /\ pc' = "rewrite"
             /\ UNCHANGED <<result, failedStage>>
    /\ PubFrame
    /\ UNCHANGED <<netrc, gradleWork, is_ci, github_token, destination_repo,
                   netrc_modified, registered, exitStatus, buildRuns,
                   buildRc, copybaraRuns, copybaraRc, copybaraUrl>>

\* publish(): the branch is read again and update_gradle_properties is called
RewriteVersion ==
    /\ pc = "rewrite"
    /\ stages' = Append(stages, StageRewrite)
    /\ \E git \in {"ok", "fails"} :
        IF git = "fails"
        THEN RaiseFrom(StageRewrite) /\ Say(Traceback(StageRewrite)) /\ UNCHANGED gradleWork
        ELSE IF ~IsReleasePrefixed(branch)
        THEN ReturnFrom(StageRewrite, 1) /\ Say(PrintRewrite(branch)) /\ UNCHANGED gradleWork
        ELSE IF ~gradleWork.exists
        THEN /\ RaiseFrom(StageRewrite)
             /\ Say(PrintRewrite(branch) \o Traceback(StageRewrite))
             /\ UNCHANGED gradleWork
        ELSE /\ gradleWork' = File(SubVersion(gradleWork.data, BranchVersion(branch)))
             /\ Say(PrintRewrite(branch))
             /\ pc' = "copybara"
             /\ UNCHANGED <<result, failedStage>>
    /\ PubFrame
    /\ UNCHANGED <<netrc, is_ci, github_token, destination_repo, netrc_modified,
                   source_repo, registered, exitStatus, buildRuns, buildRc,
                   copybaraRuns, copybaraRc, copybaraUrl>>

\* run_copybara: the tool is started with final_repo and its return code mapped
RunCopybara ==
    /\ pc = "copybara"
    /\ stages' = Append(stages, StageMigrate)
    /\ copybaraRuns' = copybaraRuns + 1
    /\ copybaraUrl' = FinalRepo(is_ci, github_token, destination_repo)
    /\ \E rc \in CopybaraCodes :
        /\ copybaraRc' = rc
        /\ Emit(PrintCopybara(is_ci, source_repo, destination_repo,
                              FinalRepo(is_ci, github_token, destination_repo), rc),
                PrintCopybara(is_ci, source_repo, destination_repo,
                              FinalRepo(is_ci, OtherToken(github_token), destination_repo), rc))
        /\ result' = CopybaraResult(rc)
        /\ failedStage' = IF CopybaraResult(rc) = 0 THEN "none" ELSE StageMigrate
        /\ pc' = "returned"
    /\ PubFrame
    /\ UNCHANGED <<netrc, gradleWork, is_ci, github_token, destination_repo,
                   netrc_modified, source_repo, registered, exitStatus, buildRuns,
                   buildRc>>

\* sys.exit(main()) or the uncaught exception: the atexit handler cleanup() runs
\* when __init__ registered it, then the process ends
Exit ==
    /\ pc \in {"returned", "raised"}
    /\ pc' = "exited"
    /\ exitStatus' = ProcessStatus(result)
    /\ IF registered
       THEN /\ netrc' = CleanupNetrc(netrc_modified, netrc)
            /\ gradleWork' = CleanupGradle(gradleWork, gradleHead)
       ELSE UNCHANGED <<netrc, gradleWork>>
    /\ PubFrame
    /\ UNCHANGED <<is_ci, github_token, destination_repo, netrc_modified, source_repo,
                   registered, result, stages, failedStage, buildRuns, buildRc,
                   copybaraRuns, copybaraRc, copybaraUrl, printed, printedOther>>

----------------------------------------------------------------------------
(* Idle values of the components a specification does not run *)

BulkIdle ==
    /\ bpc = "idle" /\ bIdx = 0 /\ failed_apps = <<>> /\ bGit = "none"
    /\ bRuns = <<>> /\ bResult = 0

LogIdle ==
    /\ lpc = "idle" /\ commits = <<>> /\ lIdx = 0 /\ entries = <<>> /\ output = <<>>

DocIdle ==
    /\ dpc = "idle" /\ tree = <<>> /\ macro = <<>> /\ rendered = <<>>

RaceIdle == launcher = "none" /\ runs = <<>>

PubObjectInit ==
    /\ is_ci = FALSE /\ github_token = None /\ destination_repo = <<>>
    /\ netrc_modified = FALSE /\ source_repo = None /\ registered = FALSE
    /\ result = 0 /\ exitStatus = 0
    /\ stages = <<>> /\ failedStage = "none"
    /\ buildRuns = 0 /\ buildRc = 0 /\ copybaraRuns = 0 /\ copybaraRc = 0 /\ copybaraUrl = <<>>
    /\ printed = <<>> /\ printedOther = <<>>

----------------------------------------------------------------------------
(* One publisher run *)

InitPub ==
    /\ branch \in Branches
    /\ environ \in Environs
    /\ netrc \in NetrcSamples
    /\ gradleHead \in {File(d) : d \in PropFiles}
    /\ gradleWork \in WorkingCopies(gradleHead)
    /\ netrc0 = netrc
    /\ gradle0 = gradleWork
    /\ pc = "start"
    /\ PubObjectInit
    /\ BulkIdle
    /\ LogIdle
    /\ DocIdle
    /\ RaceIdle

NextPub ==
    \/ Main /\ UNCHANGED <<bulkVars, logVars, docVars, raceVars>>
    \/ VerifyBranch /\ UNCHANGED <<bulkVars, logVars, docVars, raceVars>>
    \/ VerifyBuild /\ UNCHANGED <<bulkVars, logVars, docVars, raceVars>>
    \/ VerifyAuth /\ UNCHANGED <<bulkVars, logVars, docVars, raceVars>>
    \/ SetupNetrc /\ UNCHANGED <<bulkVars, logVars, docVars, raceVars>>
    \/ DetermineSource /\ UNCHANGED <<bulkVars, logVars, docVars, raceVars>>
    \/ RewriteVersion /\ UNCHANGED <<bulkVars, logVars, docVars, raceVars>>
    \/ RunCopybara /\ UNCHANGED <<bulkVars, logVars, docVars, raceVars>>
    \/ Exit /\ UNCHANGED <<bulkVars, logVars, docVars, raceVars>>

SpecPub == InitPub /\ [][NextPub]_vars

----------------------------------------------------------------------------
(* Bulk driver: publish_all_demoapps.py *)

demo_apps ==
    << <<"starwars", "viaduct-dev/starwars">>,
       <<"cli-starter", "viaduct-dev/cli-starter">>,
       <<"ktor-starter", "viaduct-dev/ktor-starter">> >>

\* statuses a publisher process ends with: main()'s return value or 1 for a traceback
PublisherStatuses ==
    {ProcessStatus(CopybaraResult(rc)) : rc \in CopybaraCodes} \cup {ProcessStatus(1)}

\* variant: any branch that starts with release/v is accepted
verify_release_branch_PrefixOnly(b) == IsReleasePrefixed(b)

\* verify_release_branch, given the branch git printed
verify_release_branch(b) == MatchesReleasePattern(b)

\* publish_demoapp: subprocess.run(check=True) raises CalledProcessError, which
\* is caught, exactly for a non-zero return code
publish_demoapp(returncode) == returncode = 0

\* main(): verify_release_branch()
BulkVerify ==
    /\ bpc = "start"
    /\ \E git \in {"ok", "fails"} :
        /\ bGit' = git
        /\ IF git = "ok" /\ verify_release_branch(branch)
           THEN bpc' = "loop" /\ bIdx' = 1 /\ UNCHANGED bResult
           ELSE bpc' = "done" /\ bResult' = 1 /\ UNCHANGED bIdx
    /\ UNCHANGED <<failed_apps, bRuns>>

\* main(): one iteration of the loop over demo_apps; the publisher process is
\* awaited and ends with some status
BulkPublish ==
    /\ bpc = "loop"
    /\ bIdx <= Len(demo_apps)
    /\ \E status \in PublisherStatuses :
        /\ bRuns' = Append(bRuns, [app |-> demo_apps[bIdx][1],
                                   repo |-> demo_apps[bIdx][2],
                                   status |-> status])
        /\ failed_apps' = IF publish_demoapp(status) THEN failed_apps
                          ELSE Append(failed_apps, demo_apps[bIdx][1])
    /\ bIdx' = bIdx + 1
    /\ UNCHANGED <<bpc, bGit, bResult>>

\* main(): the summary after the loop
BulkSummary ==
    /\ bpc = "loop"
    /\ bIdx > Len(demo_apps)
    /\ bResult' = IF failed_apps = <<>> THEN 0 ELSE 1
    /\ bpc' = "done"
    /\ UNCHANGED <<bIdx, failed_apps, bGit, bRuns>>

PubIdle ==
    /\ environ = NoEnv /\ netrc = NoFile /\ gradleHead = File(<<>>)
    /\ gradleWork = File(<<>>) /\ netrc0 = NoFile /\ gradle0 = File(<<>>)
    /\ pc = "idle"
    /\ PubObjectInit

InitBulk ==
    /\ branch \in Branches
    /\ bpc = "start" /\ bIdx = 0 /\ failed_apps = <<>> /\ bGit = "none"
    /\ bRuns = <<>> /\ bResult = 0
    /\ PubIdle
    /\ LogIdle
    /\ DocIdle
    /\ RaceIdle

NextBulk ==
    \/ BulkVerify /\ UNCHANGED <<pubVars, logVars, docVars, raceVars>>
    \/ BulkPublish /\ UNCHANGED <<pubVars, logVars, docVars, raceVars>>
    \/ BulkSummary /\ UNCHANGED <<pubVars, logVars, docVars, raceVars>>

SpecBulk == InitBulk /\ [][NextBulk]_vars

----------------------------------------------------------------------------
(* Changelog generator: text helpers *)

SP == " "

\* str.lower() on the tokens that occur in more than one letter case
Lower(tok) ==
    CASE tok \in {"ignore", "Ignore", "IGNORE"} -> "ignore"
      [] tok \in {"(AIRBNB)", "(airbnb)", "(Airbnb)"} -> "(airbnb)"
      [] tok \in {"Github-Change-Id:", "github-change-id:"} -> "github-change-id:"
      [] tok \in {"GitOrigin-RevId:", "gitorigin-revid:"} -> "gitorigin-revid:"
      [] OTHER -> tok

\* tokens that are one word of \w characters
WordTokens ==
    {"w", "feat", "fix", "perf", "docs", "test", "refactor", "style", "chore", "ci",
     "build", "zap", "ignore", "Ignore", "IGNORE", "abc123", "I9", "Closes", "Fixes"}
\* word tokens made of [a-f0-9] only
HexTokens == {"abc123"}

\* one past the run of spaces that starts at i
RECURSIVE SpacesEnd(_, _)
SpacesEnd(s, i) == IF i <= Len(s) /\ s[i] = SP THEN SpacesEnd(s, i + 1) ELSE i

\* the last token of the run of value tokens that starts at i (greedy +)
RECURSIVE ValueRunEnd(_, _, _)
ValueRunEnd(s, i, values) ==
    IF i + 1 <= Len(s) /\ s[i + 1] \in values THEN ValueRunEnd(s, i + 1, values) ELSE i

\* the end of a match of \s+<key>\s+<value> at i, 0 if there is none
TrailerMatchEnd(s, i, key, values) ==
    LET k == SpacesEnd(s, i)
        v == SpacesEnd(s, k + 1)
    IN IF /\ k > i
          /\ k <= Len(s) /\ Lower(s[k]) = key
          /\ v > k + 1
          /\ v <= Len(s) /\ s[v] \in values
       THEN ValueRunEnd(s, v, values)
       ELSE 0

\* re.sub(r"\s+<key>\s+<value>", "", s, flags=re.IGNORECASE)
RECURSIVE SubTrailerFrom(_, _, _, _)
SubTrailerFrom(s, i, key, values) ==
    IF i > Len(s) THEN <<>>
    ELSE IF TrailerMatchEnd(s, i, key, values) # 0
         THEN SubTrailerFrom(s, TrailerMatchEnd(s, i, key, values) + 1, key, values)
         ELSE <<s[i]>> \o SubTrailerFrom(s, i + 1, key, values)

\* str.strip()
RECURSIVE StripLeft(_)
StripLeft(s) == IF s # <<>> /\ Head(s) = SP THEN StripLeft(Tail(s)) ELSE s
RECURSIVE StripRight(_)
StripRight(s) ==
    IF s # <<>> /\ s[Len(s)] = SP THEN StripRight(SubSeq(s, 1, Len(s) - 1)) ELSE s
Strip(s) == StripRight(StripLeft(s))

\* METADATA_PATTERNS applied in order, then strip()
clean_commit_message(message) ==
    Strip(SubTrailerFrom(SubTrailerFrom(message, 1, "github-change-id:", WordTokens),
                         1, "gitorigin-revid:", HexTokens))

\* variant: only the upper-case marker is replaced
RECURSIVE replace_airbnb_marker_UpperOnly(_, _)
replace_airbnb_marker_UpperOnly(message, sha) ==
    IF message = <<>> THEN <<>>
    ELSE (IF Head(message) = "(AIRBNB)" THEN <<"(", sha, ")">>
          ELSE <<Head(message)>>) \o replace_airbnb_marker_UpperOnly(Tail(message), sha)

\* re.sub(r"\(AIRBNB\)", f"({sha})", message, flags=re.IGNORECASE)
RECURSIVE replace_airbnb_marker(_, _)
replace_airbnb_marker(message, sha) ==
    IF message = <<>> THEN <<>>
    ELSE (IF Lower(Head(message)) = "(airbnb)" THEN <<"(", sha, ")">>
          ELSE <<Head(message)>>) \o replace_airbnb_marker(Tail(message), sha)

\* variant: the prefix is compared without lowering the message
should_include_commit_CaseSensitive(message) ==
    ~(Len(message) >= 2 /\ message[1] = "ignore" /\ message[2] = ":")

\* variant: the prefix is looked for anywhere in the message
should_include_commit_Anywhere(message) ==
    ~(\E i \in 1..Len(message) - 1 : Lower(message[i]) = "ignore" /\ message[i + 1] = ":")

\* not message.lower().startswith('ignore:')
should_include_commit(message) ==
    ~(Len(message) >= 2 /\ Lower(message[1]) = "ignore" /\ message[2] = ":")

----------------------------------------------------------------------------
(* Changelog generator: authors.  A handle is a token sequence, <<>> is None *)

BOT_USERNAMES == {<<"noreply">>, <<"no-reply">>, <<"github-actions">>, <<"viaductbot">>}

\* the index of the first "@" at or after i, 0 if none
RECURSIVE FirstAt(_, _)
FirstAt(s, i) ==
    IF i > Len(s) THEN 0 ELSE IF s[i] = "@" THEN i ELSE FirstAt(s, i + 1)

\* variant: no filter on the bot accounts
extract_username_from_email_NoBotFilter(email) ==
    LET at == FirstAt(email, 1)
    IN IF email = <<>> \/ at <= 1 THEN <<>> ELSE <<"@">> \o SubSeq(email, 1, at - 1)

\* re.search(r'^([^@]+)@', email), bot filter, f"@{username}"
extract_username_from_email(email) ==
    LET at == FirstAt(email, 1)
        username == SubSeq(email, 1, at - 1)
    IN IF email = <<>> THEN <<>>
       ELSE IF at <= 1 THEN <<>>
       ELSE IF username \in BOT_USERNAMES THEN <<>>
       ELSE <<"@">> \o username

\* re.search(r'<([^@]+)@', line): the first "<" with at least one character
\* between it and the next "@"
RECURSIVE CoauthorMatchFrom(_, _)
CoauthorMatchFrom(line, i) ==
    IF i > Len(line) THEN <<0, 0>>
    ELSE IF line[i] = "<" /\ FirstAt(line, i + 1) > i + 1
         THEN <<i, FirstAt(line, i + 1)>>
         ELSE CoauthorMatchFrom(line, i + 1)

extract_username_from_coauthor(author_line) ==
    LET m == CoauthorMatchFrom(author_line, 1)
        username == SubSeq(author_line, m[1] + 1, m[2] - 1)
    IN IF m[1] = 0 THEN <<>>
       ELSE IF username \in BOT_USERNAMES THEN <<>>
       ELSE <<"@">> \o username

\* str.split('|')
RECURSIVE SplitBar(_, _)
SplitBar(s, cur) ==
    IF s = <<>> THEN <<cur>>
    ELSE IF Head(s) = "|" THEN <<cur>> \o SplitBar(Tail(s), <<>>)
    ELSE SplitBar(Tail(s), Append(cur, Head(s)))

RECURSIVE CoauthorHandles(_)
CoauthorHandles(parts) ==
    IF parts = <<>> THEN <<>>
    ELSE LET coauthor == Strip(Head(parts))
             username == extract_username_from_coauthor(coauthor)
         IN (IF coauthor # <<>> /\ username # <<>> THEN <<username>> ELSE <<>>)
            \o CoauthorHandles(Tail(parts))

\* s without the later repeats of its elements
RECURSIVE WithoutRepeats(_)
WithoutRepeats(s) ==
    IF s = <<>> THEN <<>>
    ELSE LET front == WithoutRepeats(SubSeq(s, 1, Len(s) - 1))
         IN IF \E i \in 1..Len(front) : front[i] = s[Len(s)]
            THEN front ELSE Append(front, s[Len(s)])

\* variant: a handle is listed once
extract_authors_Unique(commit) ==
    LET primary == extract_username_from_email(commit.author_email)
    IN WithoutRepeats((IF primary # <<>> THEN <<primary>> ELSE <<>>)
                      \o CoauthorHandles(SplitBar(commit.co_authors_raw, <<>>)))

extract_authors(commit) ==
    LET primary == extract_username_from_email(commit.author_email)
    IN (IF primary # <<>> THEN <<primary>> ELSE <<>>)
       \o (IF commit.co_authors_raw # <<>>
           THEN CoauthorHandles(SplitBar(commit.co_authors_raw, <<>>))
           ELSE <<>>)

----------------------------------------------------------------------------
(* Changelog generator: the conventional-commit parser of the library *)

BREAKING_FOOTER == "BREAKING CHANGE:"

\* types the parser accepts
ParserTypes ==
    {"feat", "fix", "perf", "docs", "test", "refactor", "style", "chore", "ci",
     "build", "zap"}

NoParse ==
    [parsed |-> FALSE, type |-> None, scope |-> None, descriptions |-> <<>>,
     breaking_descriptions |-> <<>>, bump |-> "NO_RELEASE"]

\* the level a type gives when the commit is not breaking
TypeLevel(type) ==
    CASE type = "feat" -> "MINOR"
      [] type \in {"fix", "perf"} -> "PATCH"
      [] OTHER -> "NO_RELEASE"

\* parser.parse_message(f"{subject}\n\n{body}"): type, optional (scope), optional !,
\* ":", spaces, description; a body that opens with the breaking-change footer
ParseMessage(subject, body) ==
    LET hasScope == Len(subject) >= 4 /\ subject[2] = "(" /\ subject[4] = ")"
        afterScope == IF hasScope THEN 5 ELSE 2
        bang == afterScope <= Len(subject) /\ subject[afterScope] = "!"
        colon == IF bang THEN afterScope + 1 ELSE afterScope
        desc == SpacesEnd(subject, colon + 1)
        footer == Len(body) >= 1 /\ body[1] = BREAKING_FOOTER
        breaking == IF footer THEN <<StripLeft(Tail(body))>> ELSE <<>>
    IN IF /\ Len(subject) >= 1 /\ subject[1] \in ParserTypes
          /\ colon <= Len(subject) /\ subject[colon] = ":"
          /\ desc > colon + 1
          /\ desc <= Len(subject)
       THEN [parsed |-> TRUE,
             type |-> subject[1],
             scope |-> IF hasScope THEN subject[3] ELSE None,
             descriptions |-> <<Drop(subject, desc - 1)>>,
             breaking_descriptions |-> breaking,
             bump |-> IF bang \/ footer THEN "MAJOR" ELSE TypeLevel(subject[1])]
       ELSE NoParse

----------------------------------------------------------------------------
(* Changelog generator: entries and rendering *)

TAG2 == "v2.0.0"

\* CHANGE_TYPES
CHANGE_TYPES ==
    [feat |-> <<1, "Features">>,
     fix |-> <<2, "Bug Fixes">>,
     perf |-> <<3, "Performance Improvements">>,
     docs |-> <<4, "Documentation">>,
     test |-> <<5, "Testing">>,
     refactor |-> <<6, "Refactoring">>,
     style |-> <<7, "Code Style">>,
     chore |-> <<8, "Chores">>,
     ci |-> <<9, "Continuous Integration">>,
     build |-> <<10, "Build System">>]

\* variant: a type outside the table sorts in front of the table types
Priority_UnknownFirst(t) == IF t \in DOMAIN CHANGE_TYPES THEN CHANGE_TYPES[t][1] ELSE 0

\* CHANGE_TYPES.get(t, (99, t))[0]
Priority(t) == IF t \in DOMAIN CHANGE_TYPES THEN CHANGE_TYPES[t][1] ELSE 99

\* str.title() on the type names outside the table
Titleize(t) == CASE t = "zap" -> "Zap" [] OTHER -> t

SectionTitle(t) == IF t \in DOMAIN CHANGE_TYPES THEN CHANGE_TYPES[t][2] ELSE Titleize(t)

\* variant: only a breaking-change footer makes an entry breaking
IsBreaking_FooterOnly(parsed) == parsed.breaking_descriptions # <<>>

\* is_breaking of parse_commit
IsBreaking(parsed) == parsed.breaking_descriptions # <<>> \/ parsed.bump = "MAJOR"

NoEntry == [none |-> TRUE]

\* parse_commit: None for an ignored commit, else the ChangelogEntry
parse_commit(commit) ==
    IF ~should_include_commit(commit.message) THEN NoEntry
    ELSE LET cleaned_message ==
                 replace_airbnb_marker(clean_commit_message(commit.message), commit.sha)
             parsed == ParseMessage(cleaned_message, commit.body)
         IN IF parsed.parsed
            THEN [none |-> FALSE,
                  sha |-> commit.sha,
                  message |-> cleaned_message,
                  authors |-> extract_authors(commit),
                  change_type |-> parsed.type,
                  scope |-> parsed.scope,
                  description |-> IF parsed.descriptions # <<>>
                                  THEN parsed.descriptions[1] ELSE cleaned_message,
                  is_breaking |-> IsBreaking(parsed),
                  breaking_description |-> IF parsed.breaking_descriptions # <<>>
                                           THEN parsed.breaking_descriptions[1] ELSE <<>>,
                  bump |-> parsed.bump]
            ELSE [none |-> FALSE,
                  sha |-> commit.sha,
                  message |-> cleaned_message,
                  authors |-> extract_authors(commit),
                  change_type |-> None,
                  scope |-> None,
                  description |-> cleaned_message,
                  is_breaking |-> FALSE,
                  breaking_description |-> <<>>,
                  bump |-> "NO_RELEASE"]

\* variant: an entry is always filed under its own change_type
GroupKey_TypeOnly(entry) == entry.change_type

\* the key group_entries_by_type files an entry under
GroupKey(entry) == IF entry.change_type # None THEN entry.change_type ELSE "chore"

\* the keys of the grouped dict, in insertion order
RECURSIVE GroupKeys(_, _)
GroupKeys(es, seen) ==
    IF es = <<>> THEN seen
    ELSE GroupKeys(Tail(es),
                   IF \E i \in 1..Len(seen) : seen[i] = GroupKey(Head(es))
                   THEN seen ELSE Append(seen, GroupKey(Head(es))))

\* variant: the entries of a group are kept newest first
Group_NewestFirst(es, key) ==
    LET g == SelectSeq(es, LAMBDA e : GroupKey(e) = key)
    IN [i \in 1..Len(g) |-> g[Len(g) + 1 - i]]

\* grouped[key]
Group(es, key) == SelectSeq(es, LAMBDA e : GroupKey(e) = key)

\* sorted(keys, key=priority): stable
RECURSIVE InsertByPriority(_, _)
InsertByPriority(sorted, t) ==
    IF sorted = <<>> THEN <<t>>
    ELSE IF Priority(sorted[Len(sorted)]) <= Priority(t) THEN Append(sorted, t)
    ELSE Append(InsertByPriority(SubSeq(sorted, 1, Len(sorted) - 1), t), sorted[Len(sorted)])

RECURSIVE SortedTypes(_, _)
SortedTypes(keys, acc) ==
    IF keys = <<>> THEN acc
    ELSE SortedTypes(Tail(keys), InsertByPriority(acc, Head(keys)))

\* lines of the document; `of` names the commit a bullet was rendered from
Line(kind, text, by, of) == [kind |-> kind, text |-> text, by |-> by, of |-> of]
BlankLine == Line("blank", <<>>, <<>>, "")
Heading1(tag) == Line("h1", <<"# Version ", tag>>, <<>>, "")
Heading2(title) == Line("h2", <<"## ", title>>, <<>>, "")

\* formatted_authors
FormattedAuthors(entry) ==
    IF entry.authors # <<>> THEN entry.authors ELSE <<(<<"@anonymous">>)>>

\* render_section
render_section(change_type, es) ==
    <<Heading2(SectionTitle(change_type)), BlankLine>>
    \o [i \in 1..Len(es) |->
            Line("bullet", es[i].description, FormattedAuthors(es[i]), es[i].sha)]
    \o <<BlankLine>>

\* render_breaking_changes
render_breaking_changes(es) ==
    <<Heading2("Breaking Changes"), BlankLine>>
    \o [i \in 1..Len(es) |->
            Line("bullet",
                 IF es[i].breaking_description # <<>>
                 THEN es[i].breaking_description ELSE es[i].description,
                 FormattedAuthors(es[i]), es[i].sha)]
    \o <<BlankLine>>

RECURSIVE RenderSections(_, _)
RenderSections(types, regular) ==
    IF types = <<>> THEN <<>>
    ELSE render_section(Head(types), Group(regular, Head(types)))
         \o RenderSections(Tail(types), regular)

NoChangesDocument(tag) ==
    <<Heading1(tag), BlankLine, Line("text", <<"No changes.">>, <<>>, ""), BlankLine>>

\* generate_changelog after the parsing loop
RenderChangelog(es, tag) ==
    IF es = <<>> THEN NoChangesDocument(tag)
    ELSE LET breaking_entries == SelectSeq(es, LAMBDA e : e.is_breaking)
             regular_entries == SelectSeq(es, LAMBDA e : ~e.is_breaking)
             sorted_types == SortedTypes(GroupKeys(regular_entries, <<>>), <<>>)
         IN <<Heading1(tag), BlankLine>>
            \o (IF breaking_entries # <<>>
                THEN render_breaking_changes(breaking_entries) ELSE <<>>)
            \o RenderSections(sorted_types, regular_entries)

----------------------------------------------------------------------------
(* Changelog generator: the commits of a range *)

Commit(message, body, author_email, co_authors_raw) ==
    [sha |-> "", message |-> message, body |-> body,
     author_email |-> author_email, co_authors_raw |-> co_authors_raw]

JOHN == <<"john.doe", "@", "example.com">>
BOT == <<"noreply", "@", "github.com">>
JANE_AND_BOT ==
    <<"Jane", SP, "<", "jane", "@", "example.com", ">", "|",
      "Bot", SP, "<", "github-actions", "@", "github.com", ">">>
FOOTER == <<BREAKING_FOOTER, SP, "drops", SP, "the", SP, "API">>

CommitSamples ==
    { Commit(<<"feat", ":", SP, "w">>, <<>>, JOHN, JANE_AND_BOT),
      Commit(<<"fix", "!", ":", SP, "w">>, <<>>, JOHN, <<>>),
      Commit(<<"fix", ":", SP, "w">>, FOOTER, JOHN, <<>>),
      Commit(<<"ignore", ":", SP, "w">>, <<>>, JOHN, <<>>),
      Commit(<<"IGNORE", ":", SP, "w">>, FOOTER, JOHN, <<>>),
      Commit(<<"w">>, <<>>, BOT, <<>>),
      Commit(<<"w">>, FOOTER, JOHN, <<>>),
      Commit(<<"zap", ":", SP, "w">>, <<>>, JOHN, <<>>),
      Commit(<<"docs", ":", SP, "w">>, <<>>, JOHN, <<>>),
      Commit(<<"build", ":", SP, "w">>, <<>>, JOHN, <<>>),
      Commit(<<"w", SP, "ignore", ":", SP, "w">>, <<>>, JOHN, <<>>),
      Commit(<<"chore", "(", "ci", ")", ":", SP, "w", SP, "(AIRBNB)", SP,
               "Github-Change-Id:", SP, "I9">>, <<>>, JOHN, <<>>),
      Commit(<<>>, <<>>, JOHN, <<>>) }

\* the short hash of the i-th commit of the log
ShaOf(i) == <<"c1", "c2", "c3", "c4">>[i]

\* what get_commits_between_tags yields: each commit with its own hash
CommitRanges ==
    { [i \in 1..Len(r) |-> [r[i] EXCEPT !.sha = ShaOf(i)]] :
        r \in SeqsUpTo(CommitSamples, MaxCommits) }

\* generate_changelog: one iteration of the loop over the commits
ParseNext ==
    /\ lpc = "parse"
    /\ lIdx <= Len(commits)
    /\ entries' = IF parse_commit(commits[lIdx]).none THEN entries
                  ELSE Append(entries, parse_commit(commits[lIdx]))
    /\ lIdx' = lIdx + 1
    /\ UNCHANGED <<lpc, commits, output>>

\* generate_changelog: the document is built and returned
Render ==
    /\ lpc = "parse"
    /\ lIdx > Len(commits)
    /\ output' = RenderChangelog(entries, TAG2)
    /\ lpc' = "done"
    /\ UNCHANGED <<commits, lIdx, entries>>

InitLog ==
    /\ commits \in CommitRanges
    /\ lpc = "parse" /\ lIdx = 1 /\ entries = <<>> /\ output = <<>>
    /\ branch = <<"main">>
    /\ PubIdle
    /\ BulkIdle
    /\ DocIdle
    /\ RaceIdle

NextLog ==
    \/ ParseNext /\ UNCHANGED <<pubVars, bulkVars, docVars, raceVars>>
    \/ Render /\ UNCHANGED <<pubVars, bulkVars, docVars, raceVars>>

SpecLog == InitLog /\ [][NextLog]_vars

----------------------------------------------------------------------------
(* Changelog generator: one commit with a subject put together from parts *)

\* the pieces subjects are made of: a word, a space, the trailer keys with the
\* space after them, ids, issue references and the marker
SubjectParts ==
    { <<"w">>, <<SP>>,
      <<"Github-Change-Id:", SP>>, <<"GITHUB-CHANGE-ID:", SP>>, <<"GitOrigin-RevId:", SP>>,
      <<"I9">>, <<"abc123">>,
      <<"Closes", SP, "#137">>, <<"Fixes", SP, "#456">>,
      <<"(AIRBNB)">>, <<"(airbnb)">> }

RECURSIVE Flatten(_)
Flatten(parts) == IF parts = <<>> THEN <<>> ELSE Head(parts) \o Flatten(Tail(parts))

\* git's %s with .strip() applied (line 213)
Subjects == {Strip(Flatten(ps)) : ps \in SeqsUpTo(SubjectParts, MaxParts)}

InitText ==
    /\ commits \in {<<[Commit(m, <<>>, JOHN, <<>>) EXCEPT !.sha = ShaOf(1)]>> : m \in Subjects}
    /\ lpc = "parse" /\ lIdx = 1 /\ entries = <<>> /\ output = <<>>
    /\ branch = <<"main">>
    /\ PubIdle
    /\ BulkIdle
    /\ DocIdle
    /\ RaceIdle

SpecText == InitText /\ [][NextLog]_vars

----------------------------------------------------------------------------
(* Changelog generator: one commit with generated authors *)

EmailTokens ==
    {"john.doe", "noreply", "no-reply", "github-actions", "viaductbot", "@", "example.com"}

\* git's %ae
Emails == SeqsUpTo(EmailTokens, MaxEmailLen)

\* values of Co-authored-by trailers
JANE_LINE == <<"Jane", SP, "<", "jane", "@", "example.com", ">">>
JOHN_LINE == <<"John", SP, "<", "john.doe", "@", "example.com", ">">>
BOT_LINE == <<"Bot", SP, "<", "github-actions", "@", "github.com", ">">>
NAME_ONLY_LINE == <<"Jane">>
NO_LOCAL_LINE == <<"x", SP, "<", "@", "example.com", ">">>
BLANK_LINE == <<SP>>
CoauthorLines ==
    {JANE_LINE, JOHN_LINE, BOT_LINE, NAME_ONLY_LINE, NO_LOCAL_LINE, BLANK_LINE}

\* %(trailers:key=Co-authored-by,valueonly,separator=%x7C)
RECURSIVE JoinBar(_)
JoinBar(ls) ==
    IF ls = <<>> THEN <<>>
    ELSE IF Len(ls) = 1 THEN ls[1]
    ELSE ls[1] \o <<"|">> \o JoinBar(Tail(ls))

\* the trailer lists of a commit, with the joined text .strip() leaves (line 225)
TrailerLists == SeqsUpTo(CoauthorLines, MaxCoauthors)

\* every email on a commit without trailers, every trailer list with three of
\* the emails
AuthorPairs ==
    {<<em, <<>>>> : em \in Emails}
        \cup {<<em, ls>> : em \in {JOHN, BOT, <<>>}, ls \in TrailerLists}

InitAuthors ==
    /\ commits \in {<<[Commit(<<"w">>, <<>>, pr[1], Strip(JoinBar(pr[2])))
                            EXCEPT !.sha = ShaOf(1)]>> : pr \in AuthorPairs}
    /\ lpc = "parse" /\ lIdx = 1 /\ entries = <<>> /\ output = <<>>
    /\ branch = <<"main">>
    /\ PubIdle
    /\ BulkIdle
    /\ DocIdle
    /\ RaceIdle

SpecAuthors == InitAuthors /\ [][NextLog]_vars

----------------------------------------------------------------------------

(* Snippet macros: source files.  A file is a sequence of tokens: pieces   *)
(* of text, tag markers "tag::NAME" or "tag::NAME[n]", and line ends       *)

\* an argument that was not given (None)
NotGiven == -1

Tok(kind, name, n) == [kind |-> kind, name |-> name, n |-> n]
Text(t) == Tok("text", <<t>>, NotGiven)
EOL == Tok("nl", <<>>, NotGiven)
\* the marker of a tag; n is the number of the [n] suffix, NotGiven without one
TagMark(name, n) == Tok("tag", name, n)

\* tag names, as the pieces they are spelled with
CONFIG == <<"CONFIG">>
CONFIG_2 == <<"CONFIG", "_2">>

SourceLines ==
    { <<Text("a")>>, <<Text("b")>>, <<>>, <<Text("a"), Text(SP)>>,
      <<TagMark(CONFIG, NotGiven)>>, <<TagMark(CONFIG, 1)>>, <<TagMark(CONFIG_2, 2)>> }

\* the text of a file with these lines; the last line ends with "\n" or not
RECURSIVE JoinLines(_, _)
JoinLines(ls, finalNewline) ==
    IF ls = <<>> THEN <<>>
    ELSE IF Len(ls) = 1 THEN ls[1] \o (IF finalNewline THEN <<EOL>> ELSE <<>>)
    ELSE ls[1] \o <<EOL>> \o JoinLines(Tail(ls), finalNewline)

\* a file whose tag is followed by more lines than the default count
LONG_FILE ==
    JoinLines(<<(<<Text("//"), TagMark(CONFIG, NotGiven), Text("a")>>)>>
              \o [i \in 1..12 |-> <<Text(IF i % 2 = 1 THEN "a" ELSE "b")>>], TRUE)

\* what stands under the docs directory when the parent has the path as well
OTHER_FILE == JoinLines(<<(<<TagMark(CONFIG, NotGiven)>>), (<<Text("b")>>)>>, TRUE)

SourceFiles ==
    {JoinLines(ls, nl) : ls \in SeqsUpTo(SourceLines, MaxLines), nl \in BOOLEAN}
        \cup {LONG_FILE}

\* what a path names under a root: nothing, a directory, or a file
Absent == [kind |-> "absent", data |-> <<>>]
Directory == [kind |-> "dir", data |-> <<>>]
Regular(data) == [kind |-> "file", data |-> data]

\* the path under the parent of the docs directory and under the docs directory
Trees ==
    {[upper |-> Absent, docs |-> Absent], [upper |-> Directory, docs |-> Absent]}
        \cup {[upper |-> Absent, docs |-> Regular(f)] : f \in SourceFiles}
        \cup {[upper |-> Regular(f), docs |-> Regular(OTHER_FILE)] : f \in SourceFiles}

\* full_path: the parent of the docs directory first, then the docs directory
Resolve(t) == IF t.upper.kind # "absent" THEN t.upper ELSE t.docs

----------------------------------------------------------------------------

(* Snippet macros: codetag and codefile *)

\* the line count used when neither the call nor the marker gives one
DEFAULT_LINES == 10

\* how a call ends: the exception raised, or "ok" with the code block
Raised(exception, named) ==
    [status |-> exception, named |-> named, lines |-> <<>>, text |-> <<>>, label |-> <<>>]
Block(lines, text, label) ==
    [status |-> "ok", named |-> <<>>, lines |-> lines, text |-> text, label |-> label]

\* the index of the first line end at or after i, 0 if there is none
RECURSIVE NextEOL(_, _)
NextEOL(content, i) ==
    IF i > Len(content) THEN 0
    ELSE IF content[i].kind = "nl" THEN i
    ELSE NextEOL(content, i + 1)

\* tag::{re.escape(tag)} matches a marker whose name starts with the tag
MarkerMatches(tok, tag) == tok.kind = "tag" /\ StartsWith(tok.name, tag)

\* re.search(tag_pattern, content): the marker matched and the "\n" that ends
\* the match, <<0, 0>> when there is no match
RECURSIVE TagSearch(_, _, _)
TagSearch(content, tag, i) ==
    IF i > Len(content) THEN <<0, 0>>
    ELSE IF MarkerMatches(content[i], tag) /\ NextEOL(content, i) # 0
         THEN <<i, NextEOL(content, i)>>
         ELSE TagSearch(content, tag, i + 1)

\* match.group(1): the number of [n] right after the tag, NotGiven if none
MarkerCount(tok, tag) == IF tok.name = tag THEN tok.n ELSE NotGiven

\* str.split('\n')
RECURSIVE SplitEOL(_, _)
SplitEOL(s, cur) ==
    IF s = <<>> THEN <<cur>>
    ELSE IF Head(s).kind = "nl" THEN <<cur>> \o SplitEOL(Tail(s), <<>>)
    ELSE SplitEOL(Tail(s), Append(cur, Head(s)))

\* '\n'.join(lines)
RECURSIVE JoinEOL(_)
JoinEOL(ls) ==
    IF ls = <<>> THEN <<>>
    ELSE IF Len(ls) = 1 THEN ls[1]
    ELSE ls[1] \o <<EOL>> \o JoinEOL(Tail(ls))

\* variant: the end of the range is left out
Slice_EndExclusive(s, a, b) == SubSeq(s, a + 1, IF b - 1 < Len(s) THEN b - 1 ELSE Len(s))

\* s[a:b] for a, b >= 0
Slice(s, a, b) == SubSeq(s, a + 1, IF b < Len(s) THEN b ELSE Len(s))

\* lines_to_extract: the count argument, else the marker's number, else 10
LinesToExtract(count, group1) ==
    IF count # NotGiven THEN count
    ELSE IF group1 # NotGiven THEN group1
    ELSE DEFAULT_LINES

codetag(t, tag, count) ==
    LET node == Resolve(t)
        content == node.data
        match == TagSearch(content, tag, 1)
        lines_to_extract == LinesToExtract(count, MarkerCount(content[match[1]], tag))
        lines == Slice(SplitEOL(Drop(content, match[2]), <<>>), 0, lines_to_extract)
    IN IF node.kind = "absent" THEN Raised("FileNotFoundError", <<>>)
       ELSE IF node.kind = "dir" THEN Raised("RuntimeError", <<>>)
       ELSE IF match[1] = 0 THEN Raised("ValueError", tag)
       ELSE Block(lines, JoinEOL(lines), <<>>)

\* f.readlines(): the lines with their line ends
RECURSIVE ReadLines(_, _)
ReadLines(s, cur) ==
    IF s = <<>> THEN (IF cur = <<>> THEN <<>> ELSE <<cur>>)
    ELSE IF Head(s).kind = "nl" THEN <<Append(cur, Head(s))>> \o ReadLines(Tail(s), <<>>)
    ELSE ReadLines(Tail(s), Append(cur, Head(s)))

\* str.rstrip(): without the line ends and spaces at the end
RECURSIVE RStrip(_)
RStrip(s) ==
    IF s # <<>> /\ (s[Len(s)].kind = "nl" \/ s[Len(s)] = Text(SP))
    THEN RStrip(SubSeq(s, 1, Len(s) - 1))
    ELSE s

\* `if x` for a line number argument: given and not 0
Given(x) == x # NotGiven /\ x # 0

codefile(t, start, end) ==
    LET node == Resolve(t)
        all == ReadLines(node.data, <<>>)
        start_idx == IF Given(start) THEN start - 1 ELSE 0
        end_idx == IF Given(end) THEN end ELSE Len(all)
        lines == IF start # NotGiven \/ end # NotGiven
                 THEN Slice(all, start_idx, end_idx) ELSE all
        line_range == IF Given(start) \/ Given(end)
                      THEN <<IF Given(start) THEN start ELSE 1,
                             IF Given(end) THEN end ELSE Len(lines)>>
                      ELSE <<>>
    IN IF node.kind = "absent" THEN Raised("FileNotFoundError", <<>>)
       ELSE IF node.kind = "dir" THEN Raised("RuntimeError", <<>>)
       ELSE Block(lines, RStrip(Flatten(lines)), line_range)

----------------------------------------------------------------------------
(* Snippet macros: one call of a macro *)

Call(name, tag, count, start, end) ==
    [name |-> name, tag |-> tag, count |-> count, start |-> start, end |-> end]

CountArgs == {NotGiven, 0, 1, 2, 11}
LineArgs == {NotGiven} \cup 0..MaxLines

Calls ==
    {Call("codetag", CONFIG, c, NotGiven, NotGiven) : c \in CountArgs}
        \cup {Call("codefile", <<>>, NotGiven, s, e) : s \in LineArgs, e \in LineArgs}

Codetag ==
    /\ dpc = "call"
    /\ macro.name = "codetag"
    /\ rendered' = codetag(tree, macro.tag, macro.count)
    /\ dpc' = "done"
    /\ UNCHANGED <<tree, macro>>

Codefile ==
    /\ dpc = "call"
    /\ macro.name = "codefile"
    /\ rendered' = codefile(tree, macro.start, macro.end)
    /\ dpc' = "done"
    /\ UNCHANGED <<tree, macro>>

InitDoc ==
    /\ tree \in Trees
    /\ macro \in Calls
    /\ dpc = "call" /\ rendered = <<>>
    /\ branch = <<"main">>
    /\ PubIdle
    /\ BulkIdle
    /\ LogIdle
    /\ RaceIdle

NextDoc ==
    \/ Codetag /\ UNCHANGED <<pubVars, bulkVars, logVars, raceVars>>
    \/ Codefile /\ UNCHANGED <<pubVars, bulkVars, logVars, raceVars>>

SpecDoc == InitDoc /\ [][NextDoc]_vars

----------------------------------------------------------------------------
(* Publisher runs in CI that share one ~/.netrc *)

Runs == 1..MaxRuns

\* tokens of the runs
RunTokens == {"s3cr3t", "t0k3n"}

\* variant: the driver starts a publisher without waiting for the one before
Awaited_NoWait(mode, r, rs) == TRUE

\* a run may start: on its own at any time, under the bulk driver when
\* subprocess.run has returned for every app before it in the loop
Awaited(mode, r, rs) ==
    mode = "independent" \/ \A q \in 1..r - 1 : rs[q].pc = "exited"

\* the process of run r is started and reaches publish()
RunStart(r) ==
    /\ runs[r].pc = "waiting"
    /\ Awaited(launcher, r, runs)
    /\ runs' = [runs EXCEPT ![r].pc = "publish"]
    /\ UNCHANGED <<launcher, netrc>>

\* a check of publish() before setup_netrc fails: the run returns 1
RunStopsEarly(r) ==
    /\ runs[r].pc = "publish"
    /\ runs' = [runs EXCEPT ![r].pc = "returned"]
    /\ UNCHANGED <<launcher, netrc>>

\* setup_netrc of run r: the section is appended and netrc_modified set
RunSetupNetrc(r) ==
    /\ runs[r].pc = "publish"
    /\ netrc' = File(netrc.data \o NetrcEntry(runs[r].github_token))
    /\ runs' = [runs EXCEPT ![r].pc = "migrating", ![r].netrc_modified = TRUE]
    /\ UNCHANGED launcher

\* run_copybara of run r: the migration tool ends and main() returns
RunCopybaraEnds(r) ==
    /\ runs[r].pc = "migrating"
    /\ runs' = [runs EXCEPT ![r].pc = "returned"]
    /\ UNCHANGED <<launcher, netrc>>

\* cleanup of run r up to read_text() and re.sub
RunCleanupReads(r) ==
    /\ runs[r].pc = "returned"
    /\ IF runs[r].netrc_modified /\ netrc.exists
       THEN runs' = [runs EXCEPT ![r].pc = "cleaning",
                                 ![r].content = RemoveSections(netrc.data)]
       ELSE runs' = [runs EXCEPT ![r].pc = "exited"]
    /\ UNCHANGED <<launcher, netrc>>

\* cleanup of run r: write_text(content), then the process ends
RunCleanupWrites(r) ==
    /\ runs[r].pc = "cleaning"
    /\ netrc' = File(runs[r].content)
    /\ runs' = [runs EXCEPT ![r].pc = "exited"]
    /\ UNCHANGED launcher

InitRace ==
    /\ launcher \in {"independent", "bulk"}
    /\ runs \in [Runs -> [pc : {"waiting"}, github_token : RunTokens,
                          netrc_modified : {FALSE}, content : {<<>>}]]
    /\ netrc \in NetrcSamples
    /\ netrc0 = netrc
    /\ branch = <<"main">>
    /\ environ = NoEnv /\ gradleHead = File(<<>>) /\ gradleWork = File(<<>>)
    /\ gradle0 = File(<<>>) /\ pc = "idle"
    /\ PubObjectInit
    /\ BulkIdle
    /\ LogIdle
    /\ DocIdle

NextRace ==
    \/ \E r \in Runs : RunStart(r) /\ UNCHANGED <<pubRest, bulkVars, logVars, docVars>>
    \/ \E r \in Runs : RunStopsEarly(r) /\ UNCHANGED <<pubRest, bulkVars, logVars, docVars>>
    \/ \E r \in Runs : RunSetupNetrc(r) /\ UNCHANGED <<pubRest, bulkVars, logVars, docVars>>
    \/ \E r \in Runs : RunCopybaraEnds(r) /\ UNCHANGED <<pubRest, bulkVars, logVars, docVars>>
    \/ \E r \in Runs : RunCleanupReads(r) /\ UNCHANGED <<pubRest, bulkVars, logVars, docVars>>
    \/ \E r \in Runs : RunCleanupWrites(r) /\ UNCHANGED <<pubRest, bulkVars, logVars, docVars>>

SpecRace == InitRace /\ [][NextRace]_vars

----------------------------------------------------------------------------

(* Properties of one publisher run (SpecPub) *)

Finished == pc \in {"returned", "raised", "exited"}

StageOrder ==
    <<StageVerifyBranch, StageVerifyBuild, StageVerifyAuth, StageCredentials,
      StageSource, StageRewrite, StageMigrate>>

\* some CI indicator variable is set (to a value os.environ.get reports as true)
CiIndicatorSet ==
    \E n \in EnvNames \ {TOKEN_VAR} : environ[n] \notin {Unset, ""}

\* the access token variable is set (to a value os.environ.get reports as true)
TokenSet == environ[TOKEN_VAR] \notin {Unset, ""}

\* no viaductVersion line of the file gives the version v
NoLineGives(props, v) ==
    \A i \in 1..Len(props.data) :
        props.data[i].key = "viaductVersion" => props.data[i].val # v

\* C1: after the exit-time cleanup() of a run that constructed the publisher,
\* a .netrc that had no TEMP GIT ACCESS section before the run has none, and
\* gradle.properties has its checked-in content, however the run ended.
C1_CleanupRestoresFiles ==
    (pc = "exited" /\ registered /\ ~HasSection(netrc0.data))
        => /\ ~HasSection(netrc.data)
           /\ gradleWork.exists => gradleWork = gradleHead

\* C2: on a branch that is not release/v<major>.<minor>.<patch> the finished run
\* has a non-zero status, .netrc and gradle.properties (local edits included)
\* are as before the run, and the migration tool was not invoked.
C2_NonReleaseBranchChangesNothing ==
    (pc = "exited" /\ ~MatchesReleasePattern(branch))
        => /\ exitStatus # 0
           /\ netrc = netrc0
           /\ gradleWork = gradle0
           /\ copybaraRuns = 0

\* C3: on a branch release/v<V>, when gradle.properties is missing or none of its
\* viaductVersion lines gives V (no such line included), publish() has returned
\* non-zero with no build run, .netrc and gradle.properties untouched and the
\* migration tool not invoked.
C3_MismatchReturnsBeforeMutation ==
    (/\ pc = "returned" /\ registered
     /\ IsReleasePrefixed(branch)
     /\ (~gradle0.exists \/ NoLineGives(gradle0, BranchVersion(branch))))
        => /\ result # 0
           /\ buildRuns = 0
           /\ netrc = netrc0 /\ ~netrc_modified
           /\ gradleWork = gradle0
           /\ copybaraRuns = 0

C3_Witness ==
    /\ pc = "returned" /\ registered
    /\ branch = <<RELEASE_PREFIX>> \o V200
    /\ gradle0 = File(<<VerLine(V100)>>)
    /\ result = 1

\* C4: once the migration tool has run, run_copybara's result is 0 for the
\* tool's codes 0 and 4 and the code itself otherwise, and the process status
\* is then that code (as one byte) and not zero.
C4_CopybaraCodePropagates ==
    (copybaraRuns = 1 /\ Finished)
        => IF copybaraRc = 0 \/ copybaraRc = 4
           THEN result = 0 /\ (pc = "exited" => exitStatus = 0)
           ELSE /\ result = copybaraRc
                /\ pc = "exited" => (exitStatus = copybaraRc % 256 /\ exitStatus # 0)

C4_Witness ==
    /\ pc = "exited" /\ copybaraRuns = 1 /\ copybaraRc = 255 /\ exitStatus = 255

\* C5: with a CI indicator and the token set, a run that passed
\* configure-credentials has appended the token section to .netrc, and the
\* migration tool gets the https URL with the token; with no CI indicator set
\* .netrc is never written, netrc_modified stays false and the migration tool
\* gets the git@github.com URL, whatever the token variable holds.
C5_AuthFollowsCiDetection ==
    /\ (registered /\ CiIndicatorSet /\ TokenSet /\ pc \in {"source", "rewrite", "copybara"})
        => /\ netrc_modified
           /\ netrc = File(netrc0.data \o NetrcEntry(environ[TOKEN_VAR]))
    /\ (CiIndicatorSet /\ TokenSet /\ copybaraRuns = 1)
        => copybaraUrl = <<"https://", "x-access-token:", environ[TOKEN_VAR], "@",
                           "github.com/", GITHUB_REPO, ".git">>
    /\ ~CiIndicatorSet
        => /\ netrc = netrc0
           /\ ~netrc_modified
           /\ copybaraRuns = 1 => copybaraUrl = <<"git@github.com:", GITHUB_REPO, ".git">>

C5_Witness ==
    /\ copybaraRuns = 1
    /\ environ["CI"] = "" /\ environ["BUILDKITE"] = "true" /\ TokenSet
    /\ netrc_modified
    /\ Head(copybaraUrl) = "https://"

\* C6: the stages started are an initial part of the fixed order, each at most
\* once; a failed stage is the last one started and leaves a non-zero result;
\* a run that ended without a failed stage went through all of them.
C6_StagesLinearFailFast ==
    /\ Len(stages) <= Len(StageOrder)
    /\ stages = SubSeq(StageOrder, 1, Len(stages))
    /\ buildRuns <= 1 /\ copybaraRuns <= 1
    /\ buildRuns = Cardinality({i \in 1..Len(stages) : stages[i] = StageVerifyBuild})
    /\ copybaraRuns = Cardinality({i \in 1..Len(stages) : stages[i] = StageMigrate})
    /\ failedStage # "none"
        => /\ Finished
           /\ result # 0
           /\ stages # <<>> /\ stages[Len(stages)] = failedStage
    /\ (Finished /\ registered /\ failedStage = "none")
        => stages = StageOrder /\ result = 0

C6_Witness ==
    /\ pc = "returned" /\ failedStage = StageVerifyAuth
    /\ stages = SubSeq(StageOrder, 1, 3)
    /\ buildRuns = 1 /\ copybaraRuns = 0

\* C7: the process status is 0 exactly when both arguments were given, the
\* branch/version check, the build and the CI-token check passed and the
\* migration tool exited with 0 or 4.
C7_ExitZeroIffAllPassed ==
    pc = "exited"
        => (exitStatus = 0
            <=> /\ registered
                /\ IsReleasePrefixed(branch)
                /\ gradle0.exists
                /\ SearchVersion(gradle0.data) # 0
                /\ gradle0.data[SearchVersion(gradle0.data)].val = BranchVersion(branch)
                /\ buildRuns = 1 /\ buildRc = 0
                /\ ~(CiIndicatorSet /\ ~TokenSet)
                /\ copybaraRuns = 1 /\ copybaraRc \in {0, 4})

C7_Witness ==
    /\ pc = "exited" /\ exitStatus = 0 /\ copybaraRuns = 1 /\ copybaraRc = 4

----------------------------------------------------------------------------
(* Properties of the bulk driver (SpecBulk) *)

\* the apps of the runs that ended with a non-zero status, in run order
RECURSIVE FailedNames(_)
FailedNames(rs) ==
    IF rs = <<>> THEN <<>>
    ELSE (IF Head(rs).status # 0 THEN <<Head(rs).app>> ELSE <<>>)
         \o FailedNames(Tail(rs))

\* C8: on a release/v<digits>.<digits>.<digits> branch the driver runs the
\* publisher once per (app, repo) pair in list order whatever the earlier runs
\* returned, returns 0 exactly when every run exited 0 and 1 otherwise, and
\* failed_apps is the apps that exited non-zero in list order; on any other
\* branch it returns 1 and runs no publisher.
C8_BulkDriverAggregates ==
    /\ Len(bRuns) <= Len(demo_apps)
    /\ \A i \in 1..Len(bRuns) :
        bRuns[i].app = demo_apps[i][1] /\ bRuns[i].repo = demo_apps[i][2]
    /\ failed_apps = FailedNames(bRuns)
    /\ ~MatchesReleasePattern(branch) => bRuns = <<>>
    /\ (bpc = "done" /\ ~MatchesReleasePattern(branch)) => bResult = 1
    /\ (bpc = "done" /\ bGit = "ok" /\ MatchesReleasePattern(branch))
        => /\ Len(bRuns) = Len(demo_apps)
           /\ bResult \in {0, 1}
           /\ bResult = 0 <=> \A i \in 1..Len(bRuns) : bRuns[i].status = 0

C8_Witness ==
    /\ bpc = "done" /\ bResult = 1
    /\ Len(bRuns) = 3
    /\ bRuns[1].status # 0 /\ bRuns[2].status = 0 /\ bRuns[3].status # 0
    /\ failed_apps = <<"starwars", "ktor-starter">>

----------------------------------------------------------------------------
(* Properties of generate_changelog (SpecLog) *)

\* the subject starts with ignore: in some letter case
IgnorePrefixed(c) ==
    /\ Len(c.message) >= 2
    /\ c.message[1] \in {"ignore", "Ignore", "IGNORE"}
    /\ c.message[2] = ":"

\* the subject carries the ! marker in front of its colon
HasBang(c) ==
    \E i \in 1..Len(c.message) - 1 : c.message[i] = "!" /\ c.message[i + 1] = ":"

\* the message has a breaking-change footer
HasFooter(c) == c.body # <<>> /\ c.body[1] = BREAKING_FOOTER

\* the parser accepts the cleaned message as a conventional commit
Conventional(c) ==
    ParseMessage(replace_airbnb_marker(clean_commit_message(c.message), c.sha),
                 c.body).parsed

\* the title of the section line i of the document is in, None above the first
RECURSIVE SectionAt(_, _)
SectionAt(doc, i) ==
    IF i < 1 THEN None
    ELSE IF doc[i].kind = "h2" THEN doc[i].text[2]
    ELSE SectionAt(doc, i - 1)

\* the sections in which a bullet of the commit is rendered, one per bullet
BulletSections(doc, sha) ==
    LET at == {i \in 1..Len(doc) : doc[i].kind = "bullet" /\ doc[i].of = sha}
    IN [n \in {Cardinality(at)} |-> {SectionAt(doc, i) : i \in at}]

\* the commit is rendered once, in the Breaking Changes section
OnlyInBreaking(doc, sha) ==
    BulletSections(doc, sha) = [n \in {1} |-> {"Breaking Changes"}]

\* the Breaking Changes heading comes before every other section heading
BreakingLeads(doc) ==
    \A i, j \in 1..Len(doc) :
        (/\ doc[i].kind = "h2" /\ doc[i].text[2] = "Breaking Changes"
         /\ doc[j].kind = "h2" /\ doc[j].text[2] # "Breaking Changes") => i < j

\* C9 as stated: every included commit with the ! marker or a breaking-change
\* footer is rendered in the Breaking Changes section only, and that section
\* comes first.
C9_BreakingCommitsLead ==
    lpc = "done"
        => /\ \A k \in 1..Len(commits) :
                (~IgnorePrefixed(commits[k]) /\ (HasBang(commits[k]) \/ HasFooter(commits[k])))
                    => OnlyInBreaking(output, commits[k].sha)
           /\ BreakingLeads(output)

\* C9 amended: every included commit that the parser accepts as a conventional
\* commit and that has the ! marker or a breaking-change footer is rendered in
\* the Breaking Changes section and in no type section, and that section comes
\* before every type section.
C9_ConventionalBreakingCommitsLead ==
    lpc = "done"
        => /\ \A k \in 1..Len(commits) :
                (/\ ~IgnorePrefixed(commits[k])
                 /\ Conventional(commits[k])
                 /\ (HasBang(commits[k]) \/ HasFooter(commits[k])))
                    => OnlyInBreaking(output, commits[k].sha)
           /\ BreakingLeads(output)

C9_Witness ==
    /\ lpc = "done"
    /\ Len(commits) = 2
    /\ commits[1].message = <<"feat", ":", SP, "w">>
    /\ commits[2].message = <<"fix", "!", ":", SP, "w">> /\ commits[2].body = <<>>
    /\ OnlyInBreaking(output, "c2")
    /\ BulletSections(output, "c1") = [n \in {1} |-> {"Features"}]

\* C10: the returned document is the No changes document exactly when every
\* commit of the range (possibly none) has a subject starting with ignore:, and
\* otherwise it has a section heading followed by at least one bullet.
C10_NoChangesIffNothingQualifies ==
    lpc = "done"
        => /\ output = NoChangesDocument(TAG2)
                <=> \A k \in 1..Len(commits) : IgnorePrefixed(commits[k])
           /\ (\E k \in 1..Len(commits) : ~IgnorePrefixed(commits[k]))
                => \E i \in 1..Len(output) - 2 :
                        /\ output[i].kind = "h2"
                        /\ output[i + 1].kind = "blank"
                        /\ output[i + 2].kind = "bullet"

C10_Witness ==
    /\ lpc = "done"
    /\ Len(commits) = 2
    /\ IgnorePrefixed(commits[1]) /\ commits[1].message[1] = "ignore"
    /\ IgnorePrefixed(commits[2]) /\ commits[2].message[1] = "IGNORE"
    /\ output = NoChangesDocument(TAG2)

\* the subject has the word ignore in some letter case
MentionsIgnore(c) ==
    \E i \in 1..Len(c.message) : c.message[i] \in {"ignore", "Ignore", "IGNORE"}

\* the bullets of the document rendered from the commit
BulletsOf(doc, sha) == {i \in 1..Len(doc) : doc[i].kind = "bullet" /\ doc[i].of = sha}

\* C11: a commit whose subject starts with ignore: in any letter case is refused
\* by should_include_commit, parse_commit returns None for it and it has no
\* bullet in the changelog; a commit that has ignore elsewhere in its subject but
\* not as that prefix is included, has an entry and a bullet.
C11_IgnorePrefixExcludes ==
    lpc = "done"
        => \A k \in 1..Len(commits) :
            /\ IgnorePrefixed(commits[k])
                => /\ ~should_include_commit(commits[k].message)
                   /\ parse_commit(commits[k]).none
                   /\ \A i \in 1..Len(entries) : entries[i].sha # commits[k].sha
                   /\ BulletsOf(output, commits[k].sha) = {}
            /\ (MentionsIgnore(commits[k]) /\ ~IgnorePrefixed(commits[k]))
                => /\ should_include_commit(commits[k].message)
                   /\ ~parse_commit(commits[k]).none
                   /\ \E i \in 1..Len(entries) : entries[i].sha = commits[k].sha
                   /\ BulletsOf(output, commits[k].sha) # {}

C11_Witness ==
    /\ lpc = "done"
    /\ Len(commits) = 2
    /\ IgnorePrefixed(commits[1]) /\ commits[1].message[1] = "IGNORE"
    /\ MentionsIgnore(commits[2]) /\ ~IgnorePrefixed(commits[2])
    /\ BulletsOf(output, "c1") = {}
    /\ BulletsOf(output, "c2") # {}

\* the section titles of the priority table, in the order the claim gives
TableTitles ==
    <<"Features", "Bug Fixes", "Performance Improvements", "Documentation", "Testing",
      "Refactoring", "Code Style", "Chores", "Continuous Integration", "Build System">>

\* the place of a title in the table, 0 for a title that is not in it
TableRank(title) ==
    IF \E r \in 1..Len(TableTitles) : TableTitles[r] = title
    THEN CHOOSE r \in 1..Len(TableTitles) : TableTitles[r] = title
    ELSE 0

\* the titles of the type sections of the document, in document order
TypeSectionTitles(doc) ==
    LET heads == SelectSeq(doc, LAMBDA l : l.kind = "h2" /\ l.text[2] # "Breaking Changes")
    IN [i \in 1..Len(heads) |-> heads[i].text[2]]

\* the commit is a non-breaking conventional commit of a type outside the table
OfUnlistedType(c) ==
    /\ ~IgnorePrefixed(c)
    /\ Conventional(c)
    /\ ~HasBang(c) /\ ~HasFooter(c)
    /\ c.message[1] \notin {"feat", "fix", "perf", "docs", "test", "refactor", "style",
                            "chore", "ci", "build"}

\* C12: the type sections come in the order of the priority table, a section of
\* a type outside the table has the titleized type as heading and comes after
\* every section of a table type, and no title heads two sections.
C12_SectionsInPriorityOrder ==
    lpc = "done"
        => LET titles == TypeSectionTitles(output)
           IN /\ \A i, j \in 1..Len(titles) :
                    i < j => /\ titles[i] # titles[j]
                             /\ TableRank(titles[j]) # 0
                                    => /\ TableRank(titles[i]) # 0
                                       /\ TableRank(titles[i]) < TableRank(titles[j])
              /\ \A k \in 1..Len(commits) :
                    OfUnlistedType(commits[k])
                        => /\ commits[k].message[1] = "zap"
                           /\ BulletSections(output, commits[k].sha) = [n \in {1} |-> {"Zap"}]

C12_Witness ==
    /\ lpc = "done"
    /\ Len(commits) = 2
    /\ OfUnlistedType(commits[1])
    /\ commits[2].message = <<"feat", ":", SP, "w">>
    /\ TypeSectionTitles(output) = <<"Features", "Zap">>

----------------------------------------------------------------------------
(* Properties of the text functions on one commit (SpecText) *)

GithubKeys == {"Github-Change-Id:", "GITHUB-CHANGE-ID:"}
OriginKeys == {"GitOrigin-RevId:"}
\* ids a Github-Change-Id trailer carries, and those that are hex
TrailerIds == {"I9", "abc123"}
HexIds == {"abc123"}

\* every occurrence of a key of the set in s is "key: <id>" with an id of ids
AllTrailers(s, keys, ids) ==
    \A i \in 1..Len(s) :
        s[i] \in keys => /\ i + 2 <= Len(s)
                         /\ s[i + 1] = SP
                         /\ s[i + 2] \in ids

HasKey(s, keys) == \E i \in 1..Len(s) : s[i] \in keys

\* the places in s where the issue reference stands
RefPlaces(s, ref) == {i \in 1..Len(s) - 2 : SubSeq(s, i, i + 2) = ref}

IssueRefs == {<<"Closes", SP, "#137">>, <<"Fixes", SP, "#456">>}

\* the subject and the message of the entry made from it
TheSubject == commits[1].message
TheMessage == entries[1].message

----------------------------------------------------------------------------
(* Properties of the author functions on one commit (SpecAuthors) *)

BotLocalParts == {<<"noreply">>, <<"no-reply">>, <<"github-actions">>, <<"viaductbot">>}

\* the email has an "@" and p is the place of its first one
FirstAtIs(email, p) ==
    /\ p \in 1..Len(email)
    /\ email[p] = "@"
    /\ \A q \in 1..p - 1 : email[q] # "@"

\* the handle of an email address, <<>> for a bot or an address without a local
\* part in front of an "@"
HandleOf(email) ==
    IF \E p \in 2..Len(email) : FirstAtIs(email, p)
    THEN LET p == CHOOSE p \in 2..Len(email) : FirstAtIs(email, p)
         IN IF SubSeq(email, 1, p - 1) \in BotLocalParts THEN <<>>
            ELSE <<"@">> \o SubSeq(email, 1, p - 1)
    ELSE <<>>

TheCommit == commits[1]

\* C14: extract_username_from_email gives "@" and the local part for an email
\* with a non-empty local part that is no bot name, and None for an empty
\* email, an email without "@" and a bot local part; the primary author of the
\* entry is that handle.
C14_EmailHandle ==
    lpc = "done"
        => LET email == TheCommit.author_email
               handle == extract_username_from_email(email)
           IN /\ email = <<>> => handle = <<>>
              /\ (\A p \in 1..Len(email) : email[p] # "@") => handle = <<>>
              /\ \A p \in 2..Len(email) :
                    FirstAtIs(email, p)
                        => handle = IF SubSeq(email, 1, p - 1) \in BotLocalParts
                                    THEN <<>>
                                    ELSE <<"@">> \o SubSeq(email, 1, p - 1)
              /\ TheCommit.co_authors_raw = <<>>
                    => entries[1].authors = IF handle = <<>> THEN <<>> ELSE <<handle>>

C14_Witness ==
    /\ lpc = "done"
    /\ TheCommit.author_email = <<"viaductbot", "@", "example.com">>
    /\ TheCommit.co_authors_raw = <<>>
    /\ entries[1].authors = <<>>

\* the handle a co-author trailer resolves to, <<>> when it is dropped
TrailerHandle(line) ==
    CASE line = JANE_LINE -> <<"@", "jane">>
      [] line = JOHN_LINE -> <<"@", "john.doe">>
      [] OTHER -> <<>>

\* one handle for each trailer that resolves, in trailer order
RECURSIVE TrailerHandles(_)
TrailerHandles(ls) ==
    IF ls = <<>> THEN <<>>
    ELSE (IF TrailerHandle(Head(ls)) = <<>> THEN <<>> ELSE <<TrailerHandle(Head(ls))>>)
         \o TrailerHandles(Tail(ls))

\* C15: the authors of the entry are the handle of the primary author, when it
\* has one, followed by the handles of the co-author trailers that resolve, in
\* trailer order, each trailer on its own and with repeats kept.
C15_AuthorsInOrderNoDedup ==
    lpc = "done"
        => \A ls \in TrailerLists :
            TheCommit.co_authors_raw = Strip(JoinBar(ls))
                => entries[1].authors
                    = (IF HandleOf(TheCommit.author_email) = <<>> THEN <<>>
                       ELSE <<HandleOf(TheCommit.author_email)>>)
                      \o TrailerHandles(ls)

C15_Witness ==
    /\ lpc = "done"
    /\ TheCommit.author_email = <<"john.doe", "@", "example.com">>
    /\ TheCommit.co_authors_raw = JoinBar(<<BOT_LINE, JOHN_LINE>>)
    /\ entries[1].authors = <<(<<"@", "john.doe">>), (<<"@", "john.doe">>)>>

----------------------------------------------------------------------------
(* Properties of the changelog of a tag range (SpecLog), continued *)

\* the subject has neither a metadata trailer key nor the marker
PlainSubject(c) ==
    \A i \in 1..Len(c.message) :
        c.message[i] \notin {"Github-Change-Id:", "GITHUB-CHANGE-ID:", "GitOrigin-RevId:",
                             "(AIRBNB)", "(airbnb)", "(Airbnb)"}

\* the entry parse_commit made from the k-th commit is what the fallback gives
FallbackEntry(k) ==
    \E i \in 1..Len(entries) :
        /\ entries[i].sha = commits[k].sha
        /\ entries[i].change_type = None
        /\ entries[i].scope = None
        /\ entries[i].is_breaking = FALSE
        /\ entries[i].bump = "NO_RELEASE"
        /\ entries[i].description = entries[i].message
        /\ PlainSubject(commits[k]) => entries[i].description = commits[k].message

\* C16: an included commit the parser does not accept has an entry without type
\* and scope, not breaking, with bump NO_RELEASE and the cleaned subject as
\* description; its one bullet is in the Chores section, the same section that
\* holds the non-breaking commits of type chore.
C16_UnparseableGoesToChores ==
    lpc = "done"
        => /\ \A k \in 1..Len(commits) :
                (~IgnorePrefixed(commits[k]) /\ ~Conventional(commits[k]))
                    => /\ FallbackEntry(k)
                       /\ BulletSections(output, commits[k].sha) = [n \in {1} |-> {"Chores"}]
           /\ \A k \in 1..Len(commits) :
                (/\ ~IgnorePrefixed(commits[k]) /\ Conventional(commits[k])
                 /\ commits[k].message[1] = "chore"
                 /\ ~HasBang(commits[k]) /\ ~HasFooter(commits[k]))
                    => BulletSections(output, commits[k].sha) = [n \in {1} |-> {"Chores"}]
           /\ Cardinality({i \in 1..Len(output) :
                            output[i].kind = "h2" /\ output[i].text[2] = "Chores"}) <= 1

C16_Witness ==
    /\ lpc = "done"
    /\ Len(commits) = 2
    /\ Conventional(commits[1]) /\ commits[1].message[1] = "chore"
    /\ commits[2].message = <<"w">> /\ commits[2].body = FOOTER
    /\ TypeSectionTitles(output) = <<"Chores">>
    /\ BulletsOf(output, "c1") # {} /\ BulletsOf(output, "c2") # {}

----------------------------------------------------------------------------
(* Properties of the text functions on one commit (SpecText), continued *)

Markers == {"(AIRBNB)", "(airbnb)"}

\* the places in s where "(<sha>)" stands
HashPlaces(s, sha) == {i \in 1..Len(s) - 2 : SubSeq(s, i, i + 2) = <<"(", sha, ")">>}

\* s without markers and without the tokens a replaced marker is made of
Unmarked(s, sha) == SelectSeq(s, LAMBDA t : t \notin Markers \cup {"(", sha, ")"})

\* C17: the entry's message has "(<short hash>)" once for each marker of the
\* subject, in either letter case, and no marker is left; the text around the
\* markers is that of the subject when it has no trailer key; a subject without
\* a marker gives a message without the hash.
C17_MarkerBecomesShortHash ==
    (lpc = "done" /\ Len(entries) = 1)
        => LET sha == TheCommit.sha
           IN /\ \A i \in 1..Len(TheMessage) : TheMessage[i] \notin Markers
              /\ Cardinality(HashPlaces(TheMessage, sha))
                    = Cardinality({i \in 1..Len(TheSubject) : TheSubject[i] \in Markers})
              /\ ~HasKey(TheSubject, GithubKeys \cup OriginKeys)
                    => Unmarked(TheMessage, sha) = Unmarked(TheSubject, sha)
              /\ (\A i \in 1..Len(TheSubject) : TheSubject[i] \notin Markers)
                    => /\ \A i \in 1..Len(TheMessage) : TheMessage[i] # sha
                       /\ ~HasKey(TheSubject, GithubKeys \cup OriginKeys)
                            => TheMessage = TheSubject

C17_Witness ==
    /\ lpc = "done"
    /\ TheSubject = <<"w", SP, "(airbnb)", "(AIRBNB)">>
    /\ TheMessage = <<"w", SP, "(", "c1", ")", "(", "c1", ")">>

----------------------------------------------------------------------------
(* Properties of one macro call (SpecDoc) *)

\* what the path names where the macro looks: the parent of the docs
\* directory when the path is there, else the docs directory
FoundNode == IF tree.upper.kind = "absent" THEN tree.docs ELSE tree.upper

\* the markers of the file found that name the tag / that name another tag
OwnMarks(tag) ==
    {i \in 1..Len(FoundNode.data) :
        FoundNode.data[i].kind = "tag" /\ FoundNode.data[i].name = tag}
OtherMarks(tag) ==
    {i \in 1..Len(FoundNode.data) :
        FoundNode.data[i].kind = "tag" /\ FoundNode.data[i].name # tag}

\* C18: a macro call on a path that exists under neither root raises
\* FileNotFoundError, and only then; codetag on a file without a marker of the
\* tag raises ValueError naming the tag; no code block is returned then.
C18_NoSilentFallback ==
    dpc = "done"
        => /\ rendered.status = "FileNotFoundError"
                <=> (tree.upper.kind = "absent" /\ tree.docs.kind = "absent")
           /\ (/\ macro.name = "codetag"
               /\ FoundNode.kind = "file"
               /\ OwnMarks(macro.tag) = {})
                => /\ rendered.status = "ValueError"
                   /\ rendered.named = macro.tag

\* the lines of a text, without their line ends
TextLines(s) ==
    LET parts == SplitEOL(s, <<>>)
    IN IF parts[Len(parts)] = <<>> THEN SubSeq(parts, 1, Len(parts) - 1) ELSE parts

HasOwnMark(line, tag) == \E i \in 1..Len(line) : line[i].kind = "tag" /\ line[i].name = tag

\* the first line of the file found that has a marker of the tag
MarkerLine(tag) ==
    LET ls == TextLines(FoundNode.data)
    IN CHOOSE k \in 1..Len(ls) :
        /\ HasOwnMark(ls[k], tag)
        /\ \A j \in 1..k - 1 : ~HasOwnMark(ls[j], tag)

\* the number in the [n] suffix of the marker on that line, NotGiven without one
MarkerNumber(tag) ==
    LET line == TextLines(FoundNode.data)[MarkerLine(tag)]
    IN line[CHOOSE i \in 1..Len(line) : line[i].kind = "tag"].n

\* the count the claim gives: the argument, else the marker's number, else 10
WantedCount(tag) ==
    IF macro.count # NotGiven THEN macro.count
    ELSE IF MarkerNumber(tag) # NotGiven THEN MarkerNumber(tag)
    ELSE 10

\* C19: codetag on a file whose markers all name the tag returns the lines that
\* follow the first marker line, in file order, up to the wanted count, and all
\* of them when fewer follow.
C19_BoundedLinesAfterMarker ==
    (/\ dpc = "done"
     /\ macro.name = "codetag"
     /\ FoundNode.kind = "file"
     /\ OwnMarks(macro.tag) # {}
     /\ OtherMarks(macro.tag) = {})
        => LET following == Drop(TextLines(FoundNode.data), MarkerLine(macro.tag))
               n == WantedCount(macro.tag)
           IN /\ rendered.status = "ok"
              /\ rendered.lines
                    = SubSeq(following, 1, IF n < Len(following) THEN n ELSE Len(following))

\* the line numbers a codefile call asks for are 1-indexed where given
RangeArgs ==
    /\ macro.start = NotGiven \/ macro.start >= 1
    /\ macro.end = NotGiven \/ macro.end >= 1

\* the lines of the file found that the call asks for: start through end, from
\* line 1 without start, through the last line without end
AskedLines ==
    LET ls == TextLines(FoundNode.data)
        first == IF macro.start = NotGiven THEN 1 ELSE macro.start
        last == IF macro.end = NotGiven \/ macro.end > Len(ls) THEN Len(ls) ELSE macro.end
    IN SubSeq(ls, first, last)

IsWhite(tok) == tok.kind = "nl" \/ tok = Text(SP)

\* C20 as stated: the code block of codefile holds exactly the lines asked for.
C20_ExactLineRange ==
    (/\ dpc = "done"
     /\ macro.name = "codefile"
     /\ FoundNode.kind = "file"
     /\ RangeArgs)
        => /\ rendered.status = "ok"
           /\ TextLines(rendered.text) = AskedLines

\* C20 amended: the code block of codefile holds the lines asked for without
\* the white space at their end: it is the text of those lines up to its last
\* token that is neither a line end nor a space.
C20_LineRangeRightStripped ==
    (/\ dpc = "done"
     /\ macro.name = "codefile"
     /\ FoundNode.kind = "file"
     /\ RangeArgs)
        => LET asked == JoinEOL(AskedLines)
               text == rendered.text
           IN /\ rendered.status = "ok"
              /\ Len(text) <= Len(asked)
              /\ SubSeq(asked, 1, Len(text)) = text
              /\ \A i \in Len(text) + 1..Len(asked) : IsWhite(asked[i])
              /\ text # <<>> => ~IsWhite(text[Len(text)])

C20_Witness ==
    /\ dpc = "done"
    /\ macro.name = "codefile"
    /\ macro.start = 2 /\ macro.end = 3
    /\ FoundNode.data = JoinLines(<<(<<Text("a")>>), (<<Text("b")>>), (<<>>)>>, TRUE)
    /\ rendered.text = <<Text("b")>>

\* C26: codetag on a file without a marker named exactly as the tag raises the
\* tag-not-found error, also when a marker with a longer name that starts with
\* the tag is there; on a file with such a marker the lines returned are lines
\* that follow the first marker line of that tag, in file order.
C26_ExactTagName ==
    (/\ dpc = "done"
     /\ macro.name = "codetag"
     /\ FoundNode.kind = "file")
        => /\ OwnMarks(macro.tag) = {} => rendered.status = "ValueError"
           /\ (OwnMarks(macro.tag) # {} /\ rendered.status = "ok")
                => LET following == Drop(TextLines(FoundNode.data), MarkerLine(macro.tag))
                   IN /\ Len(rendered.lines) <= Len(following) + 1
                      /\ \A i \in 1..Len(rendered.lines) :
                            i <= Len(following) => rendered.lines[i] = following[i]

\* the line numbers a codefile call gives are lines of the file found
RangeInFile ==
    LET L == Len(TextLines(FoundNode.data))
    IN /\ macro.start # NotGiven => macro.start <= L
       /\ macro.end # NotGiven => macro.end <= L
       /\ (macro.start # NotGiven /\ macro.end # NotGiven) => macro.start <= macro.end

\* C27: a codefile call with start or end, both within the file, labels the
\* link with the numbers of the first and the last file line of the range:
\* start, or 1 without it, and end, or the last line of the file without it.
C27_LabelNamesReturnedLines ==
    (/\ dpc = "done"
     /\ macro.name = "codefile"
     /\ FoundNode.kind = "file"
     /\ RangeArgs /\ RangeInFile
     /\ macro.start # NotGiven \/ macro.end # NotGiven)
        => rendered.label
            = <<IF macro.start = NotGiven THEN 1 ELSE macro.start,
                IF macro.end = NotGiven THEN Len(TextLines(FoundNode.data)) ELSE macro.end>>

----------------------------------------------------------------------------
(* Bullets of the changelog (SpecLog) *)

\* the place in the range of the commit a bullet was rendered from
CommitIndex(sha) == CHOOSE k \in 1..Len(commits) : commits[k].sha = sha

\* the lines of the document that are bullets
Bullets(doc) == {i \in 1..Len(doc) : doc[i].kind = "bullet"}

\* C25: every commit of the range whose subject does not start with ignore: has
\* exactly one bullet in the changelog, the number of bullets over all sections
\* is the number of those commits, and the bullets of one section follow the
\* order of their commits in the range.
C25_OneBulletPerCommitInLogOrder ==
    lpc = "done"
        => LET qualifying == {k \in 1..Len(commits) : ~IgnorePrefixed(commits[k])}
           IN /\ \A k \in qualifying : Cardinality(BulletsOf(output, commits[k].sha)) = 1
              /\ Cardinality(Bullets(output)) = Cardinality(qualifying)
              /\ \A i, j \in Bullets(output) :
                    (i < j /\ SectionAt(output, i) = SectionAt(output, j))
                        => CommitIndex(output[i].of) < CommitIndex(output[j].of)

C25_Witness ==
    /\ lpc = "done"
    /\ Len(commits) = 2
    /\ ~IgnorePrefixed(commits[1]) /\ ~IgnorePrefixed(commits[2])
    /\ \E i, j \in Bullets(output) :
        /\ i < j
        /\ SectionAt(output, i) = "Features" /\ SectionAt(output, j) = "Features"
        /\ output[i].of = "c1" /\ output[j].of = "c2"

----------------------------------------------------------------------------
(* The two files across one publisher run (SpecPub) *)

\* C22: after the cleanup() of a run in CI whose setup_netrc appended the
\* credentials section, the content of .netrc is the content it had before the
\* run, whatever that content was.
C22_NetrcContentPreserved ==
    (/\ pc = "exited"
     /\ is_ci
     /\ netrc_modified)
        => netrc.data = netrc0.data

\* C24: when update_gradle_properties has rewritten the version of a property
\* file that passed the branch/version check, the file is as it was before.
C24_RewriteIsIdentity ==
    (/\ pc = "copybara"
     /\ stages # <<>>
     /\ stages[Len(stages)] = StageRewrite)
        => gradleWork = gradle0

----------------------------------------------------------------------------
(* The access token and the printed text (SpecPub) *)

\* the value occurs in the token sequence
Occurs(value, s) == \E i \in 1..Len(s) : s[i] = value

\* the printed lines that start with the label
LinesLabelled(label) ==
    {i \in 1..Len(printed) : printed[i] # <<>> /\ printed[i][1] = label}

\* C23: in a run that has an access token, no printed line holds the token; the
\* 'Using ... for ...' and the 'Destination:' lines show the destination URL
\* without it; the token is in the URL handed to the migration tool in CI and in
\* the .netrc section while the section is there; and the run that differs only
\* in the value of the token has printed the same lines.
C23_TokenNeverPrinted ==
    TokenSet
        => /\ \A i \in 1..Len(printed) : ~Occurs(environ[TOKEN_VAR], printed[i])
           /\ \A i \in LinesLabelled("Using ") :
                printed[i] = <<"Using ", AuthMethod(is_ci), " for ">>
                                \o InitDestination(is_ci, GITHUB_REPO)
           /\ \A i \in LinesLabelled("Destination: ") :
                printed[i] = <<"Destination: ">> \o InitDestination(is_ci, GITHUB_REPO)
           /\ (copybaraRuns > 0 /\ is_ci) => Occurs(environ[TOKEN_VAR], copybaraUrl)
           /\ (netrc_modified /\ pc # "exited") => Occurs(environ[TOKEN_VAR], netrc.data)
           /\ printed = printedOther

C23_Witness ==
    /\ TokenSet
    /\ is_ci
    /\ pc = "returned"
    /\ copybaraRuns = 1
    /\ Occurs("s3cr3t", copybaraUrl)
    /\ Occurs("s3cr3t", netrc.data)
    /\ LinesLabelled("Using ") # {}
    /\ LinesLabelled("Destination: ") # {}
    /\ printed = printedOther

----------------------------------------------------------------------------
(* Runs that share ~/.netrc (SpecRace) *)

\* the token sequence e is in s as one piece
Holds(s, e) ==
    \E i \in 0..Len(s) - Len(e) : SubSeq(s, i + 1, i + Len(e)) = e

\* the run is between its start and the end of its process
Active(r) == runs[r].pc \notin {"waiting", "exited"}

\* setup_netrc of the run is done, its migration tool has not ended, and
\* ~/.netrc has no section with its token
Stranded(r) ==
    /\ runs[r].pc = "migrating"
    /\ runs[r].netrc_modified
    /\ ~Holds(netrc.data, NetrcEntry(runs[r].github_token))

\* C21: what cleanup() writes back has no TEMP GIT ACCESS section at all, the
\* sections of other runs included; a run is without its section during its
\* migration only after the cleanup() of another run that had added one; and
\* under the bulk driver at most one run is active at a time and none is ever
\* without its section during its migration.
C21_CleanupRemovesEverySection ==
    launcher # "none"
        => /\ \A r \in Runs : runs[r].pc = "cleaning" => ~HasSection(runs[r].content)
           /\ \A r \in Runs :
                Stranded(r) => \E q \in Runs \ {r} :
                                  runs[q].pc = "exited" /\ runs[q].netrc_modified
           /\ launcher = "bulk"
                => /\ Cardinality({r \in Runs : Active(r)}) <= 1
                   /\ \A r \in Runs : ~Stranded(r)

\* two runs started on their own: one is migrating without its section after
\* the other's cleanup()
C21_Witness ==
    /\ launcher = "independent"
    /\ \E r \in Runs :
        /\ Stranded(r)
        /\ \E q \in Runs \ {r} : runs[q].pc = "exited" /\ runs[q].netrc_modified

====
